---------------------------- MODULE Spec2Model ----------------------------
(***************************************************************************)
(* Wave scheduling, formation spawning, difficulty scaling and collision   *)
(* resolution of the shooter's gameplay engine (src/src/engine).           *)
(*                                                                         *)
(* Time is counted in ticks of 0.1 s: a duration of 15 s is 150, the       *)
(* formation spawn delay of 0.2 s is 2.  An interval that difficulty       *)
(* scaling makes fractional is kept exact as a rational [num, den] of      *)
(* ticks.  Wave indices are 0-based as in the code; sequences are 1-based, *)
(* so the active wave is waves[wave_index + 1].                            *)
(***************************************************************************)
EXTENDS Integers, Sequences, FiniteSets, TLC

VARIABLES
    waves,              \* WaveManager.waves
    wave_index,         \* WaveManager.wave_index
    wave_timer,         \* WaveManager.wave_timer
    formation_timers,   \* EnemyManager.formation_timers: key -> timer
    active_formations,  \* EnemyManager.active_formations: Seq(FormationPattern)
    enemies,            \* the enemies sprite group
    enemy_projectiles,  \* the enemy_projectiles sprite group
    pc,                 \* position inside PlayingState.update's frame
    frame_dt,           \* the dt of the frame being processed
    ticks_only,         \* history: only frames have run since set_waves
    elapsed,            \* history: update time since set_waves (while ticks_only)
    spawned,            \* history: the _spawn_enemy requests of the last call
    n_spawned,          \* history: requests since set_waves (while ticks_only)
    formation,          \* a FormationPattern driven on its own
    last,               \* history: the last call made and what it returned
    current_level,      \* LevelManager.current_level
    level_time,         \* LevelManager.level_time, in ticks
    level_duration,     \* LevelManager.level_duration, in seconds
    level_complete,     \* LevelManager.level_complete
    base_waves,         \* PlayingState.base_waves, the input of the scaling
    scaled_waves,       \* what the last scale_difficulty call returned
    scaled_level,       \* history: the level of that call, 0 before any
    scale_calls,        \* history: how many scale_difficulty calls were made
    player_projectiles, \* the player_projectiles sprite group
    player_missiles,    \* the player_missiles sprite group
    collectibles,       \* the collectibles sprite group
    player,             \* the Player: health, shield, lives, score
    stats,              \* PlayingState.stats, shared with the CollisionManager
    total_stars_collected, \* CollisionManager.total_stars_collected
    player_killed,      \* check_collisions' local player_killed
    overlap,            \* history: which sprites the last step found overlapping
    pass_enemies,       \* history: the enemies group when check_collisions began
    pass_collectibles,  \* history: the collectibles group when check_collisions began
    killed,             \* history: the enemies this frame removed (steps 1 and 2, Enemy.update)
    detached_stats,     \* CollisionManager.stats when it is not PlayingState.stats
    playing_level,      \* PlayingState.current_level
    base_score,         \* PlayingState.base_score
    playing_stars,      \* PlayingState.total_stars_collected
    screen_height,      \* the height of the display surface, in pixels
    save_file           \* the save file: None, or the stars it holds

wmVars == <<waves, wave_index, wave_timer>>
emVars == <<formation_timers, active_formations>>
groupVars == <<enemies, enemy_projectiles>>
histVars == <<elapsed, ticks_only, spawned, n_spawned>>
lmVars == <<current_level, level_time, level_duration, level_complete>>
playingVars == <<playing_level, base_score, playing_stars>>
combatVars == <<player_projectiles, player_missiles, collectibles, player,
                stats, total_stars_collected, player_killed, overlap,
                pass_enemies, pass_collectibles, killed, detached_stats,
                playing_level, base_score, playing_stars>>
levelVars == <<current_level, level_time, level_duration, level_complete,
               base_waves, scaled_waves, scaled_level, scale_calls>>

vars == <<waves, wave_index, wave_timer, formation_timers, active_formations,
          enemies, enemy_projectiles, pc, frame_dt, elapsed, ticks_only,
          spawned, n_spawned, formation, last, current_level, level_time,
          level_duration, level_complete, base_waves, scaled_waves,
          scaled_level, scale_calls, player_projectiles, player_missiles,
          collectibles, player, stats, total_stars_collected, player_killed,
          overlap, pass_enemies, pass_collectibles, killed, detached_stats,
          playing_level, base_score, playing_stars, screen_height, save_file>>

None == [none |-> TRUE]

(***************************************************************************)
(* Bounds of the model.                                                    *)
(***************************************************************************)
MaxDt == 2          \* an update advances time by 1..MaxDt ticks
MaxTime == 8        \* no frame begins once the wave timer has reached this
MaxEnemies == 2     \* no frame begins with this many enemies on screen
ScenarioTime == 45  \* the same, for the run of the scenario wave alone
MaxTimer == 110     \* no wave-timer update once wave_timer has reached this
MaxCount == 4       \* formation sizes 1..MaxCount when driven on their own

Dts == 1..MaxDt

Call(op, dt, ret) == [op |-> op, dt |-> dt, ret |-> ret]

Interval(n) == [num |-> n, den |-> 1]

\* int(): truncation toward zero of a / b, b > 0
Trunc(a, b) == IF a >= 0 THEN a \div b ELSE -((-a) \div b)

(***************************************************************************)
(* WaveManager (engine/managers/wave_manager.py).  Each method is an       *)
(* operator from the object's fields to the fields after the call and the  *)
(* value returned.                                                         *)
(***************************************************************************)
WaveManager_set_waves(ws) ==
    [waves |-> ws, wave_index |-> 0, wave_timer |-> 0]

\* update_wave_timer without the test for the last wave
WaveManager_update_wave_timer_past_last(ws, idx, timer, dt) ==
    LET t == timer + dt
    IN  IF Len(ws) > 0 /\ idx < Len(ws) /\ t >= ws[idx + 1].duration
        THEN [wave_index |-> idx + 1, wave_timer |-> 0, ret |-> TRUE]
        ELSE [wave_index |-> idx, wave_timer |-> t, ret |-> FALSE]

\* update_wave_timer carrying the overshoot into the next wave
WaveManager_update_wave_timer_carry(ws, idx, timer, dt) ==
    LET t == timer + dt
    IN  IF /\ Len(ws) > 0
           /\ idx < Len(ws)
           /\ t >= ws[idx + 1].duration
           /\ idx < Len(ws) - 1
        THEN [wave_index |-> idx + 1,
              wave_timer |-> t - ws[idx + 1].duration, ret |-> TRUE]
        ELSE [wave_index |-> idx, wave_timer |-> t, ret |-> FALSE]

WaveManager_update_wave_timer(ws, idx, timer, dt) ==
    LET t == timer + dt
    IN  IF /\ Len(ws) > 0
           /\ idx < Len(ws)
           /\ t >= ws[idx + 1].duration
           /\ idx < Len(ws) - 1
        THEN [wave_index |-> idx + 1, wave_timer |-> 0, ret |-> TRUE]
        ELSE [wave_index |-> idx, wave_timer |-> t, ret |-> FALSE]

WaveManager_get_current_wave(ws, idx) ==
    IF Len(ws) = 0 \/ idx >= Len(ws) THEN None ELSE ws[idx + 1]

WaveManager_advance_wave(ws, idx, timer) ==
    IF idx < Len(ws) - 1
    THEN [wave_index |-> idx + 1, wave_timer |-> 0, ret |-> TRUE]
    ELSE [wave_index |-> idx, wave_timer |-> timer, ret |-> FALSE]

WaveManager_reset(ws) ==
    [waves |-> ws, wave_index |-> 0, wave_timer |-> 0]

(***************************************************************************)
(* FormationPattern (engine/managers/enemy_manager.py).                    *)
(***************************************************************************)
FormationTypes == {"random", "line", "v_shape", "circle", "arc", "diamond"}

ScreenWidth == 980      \* Game.width, handed to EnemyManager as screen_width
GameHeight == 1280      \* Game.height, the height of the playfield
DefaultSpacing == 60    \* FormationPattern's default spacing
SpawnDelay == 2         \* spawn_delay=0.2 s, in ticks
RandomMargin == 50      \* random.randint(50, screen_width - 50)

\* cos(2*pi*index/count) / (2*pi), in millionths: row count, column index + 1
CircleTable ==
    << <<159155>>,
       <<159155, -159155>>,
       <<159155, -79577, -79577>>,
       <<159155, 0, -159155, 0>>,
       <<159155, 49182, -128759, -128759, 49182>>,
       <<159155, 79577, -79577, -159155, -79577, 79577>>,
       <<159155, 99231, -35415, -143394, -143394, -35415, 99231>>,
       <<159155, 112540, 0, -112540, -159155, -112540, 0, 112540>> >>

\* cos(pi*index/(count-1)) / pi (angle 0 when count = 1), in millionths
ArcTable ==
    << <<318310>>,
       <<318310, -318310>>,
       <<318310, 0, -318310>>,
       <<318310, 159155, -159155, -318310>>,
       <<318310, 225079, 0, -225079, -318310>>,
       <<318310, 257518, 98363, -98363, -257518, -318310>>,
       <<318310, 275664, 159155, 0, -159155, -275664, -318310>>,
       <<318310, 286787, 198463, 70831, -70831, -198463, -286787, -318310>> >>

\* the positions random.randint(50, screen_width - 50) is sampled at
RandomPositions(sw) == {RandomMargin, sw \div 2, sw - RandomMargin}

\* x_offset is the caller's value, 0 standing for an omitted one
FormationPattern_init(ftype, etype, count, sw, delay, x_offset, spacing) ==
    [formation_type |-> ftype, enemy_type |-> etype, count |-> count,
     screen_width |-> sw, spawn_delay |-> delay,
     x_offset |-> x_offset,
     spacing |-> spacing,
     spawned_count |-> 0, spawn_timer |-> 0, complete |-> FALSE]

\* a LINE that starts at the center instead of half its width to the left
FormationPattern_get_position_for_index_from_center(f, index) ==
    {f.screen_width \div 2 + f.x_offset + index * f.spacing}

\* The set of values _get_position_for_index(index) can return: one value,
\* except for a RANDOM formation.
\* every member at the centre of the formation
Position_centre(f, index) == {f.screen_width \div 2 + f.x_offset}

FormationPattern_get_position_for_index(f, index) ==
    LET center == f.screen_width \div 2 + f.x_offset
        n == f.count
        s == f.spacing
    IN  CASE f.formation_type = "random" ->
               RandomPositions(f.screen_width)
          [] f.formation_type = "line" ->
               LET total_width == (n - 1) * s
                   start_x == center - total_width \div 2
               IN  {start_x + index * s}
          [] f.formation_type = "v_shape" ->
               LET half == n \div 2
               IN  IF index < half
                   THEN {center - (half - index) * s}
                   ELSE {center + (index - half) * s}
          [] f.formation_type = "circle" ->
               {center + Trunc(n * s * CircleTable[n][index + 1], 1000000)}
          [] f.formation_type = "arc" ->
               {center + Trunc(n * s * ArcTable[n][index + 1], 1000000)}
          [] f.formation_type = "diamond" ->
               LET quarter == n \div 4
               IN  IF index < quarter
                   THEN {center - (quarter - index) * s}
                   ELSE IF index < quarter * 2
                   THEN {center + (index - quarter) * s}
                   ELSE IF index < quarter * 3
                   THEN {center + (quarter * 2 - index) * s}
                   ELSE {center - (index - quarter * 3) * s}
          [] OTHER -> {center}

\* update(dt) without the early return of a complete formation
FormationPattern_update_always(f, dt) ==
    LET t == f.spawn_timer + dt
    IN  IF t >= f.spawn_delay /\ f.spawned_count < f.count
        THEN LET c == f.spawned_count + 1
             IN  {[f |-> [f EXCEPT !.spawn_timer = 0,
                                   !.spawned_count = c,
                                   !.complete = (c >= f.count)],
                   spawn |-> TRUE, x |-> x] :
                    x \in FormationPattern_get_position_for_index(
                              f, f.spawned_count)}
        ELSE {[f |-> [f EXCEPT !.spawn_timer = t],
               spawn |-> FALSE, x |-> 0]}

\* The outcomes of update(dt): the object after the call and what it
\* returned (None, or the x position of the spawn).
FormationPattern_update(f, dt) ==
    IF f.complete
    THEN {[f |-> f, spawn |-> FALSE, x |-> 0]}
    ELSE LET t == f.spawn_timer + dt
         IN  IF t >= f.spawn_delay /\ f.spawned_count < f.count
             THEN LET c == f.spawned_count + 1
                  IN  {[f |-> [f EXCEPT !.spawn_timer = 0,
                                        !.spawned_count = c,
                                        !.complete = (c >= f.count)],
                        spawn |-> TRUE, x |-> x] :
                         x \in FormationPattern_get_position_for_index(
                                   f, f.spawned_count)}
             ELSE {[f |-> [f EXCEPT !.spawn_timer = t],
                    spawn |-> FALSE, x |-> 0]}

(***************************************************************************)
(* Enemy (entities/enemy.py): what _spawn_enemy creates.  A sprite group   *)
(* is the sequence of its sprites in the order they were added; a sprite   *)
(* is identified by its place in the group.                                *)
(***************************************************************************)
EnemyTypes == {"basic", "zigzag", "shooter", "heavy", "dart", "shield"}

\* the group without the sprites at the places in dead
Without(group, dead) ==
    LET F[i \in 0..Len(group)] ==
          IF i = 0 THEN <<>>
          ELSE IF i \in dead THEN F[i - 1] ELSE Append(F[i - 1], group[i])
    IN  F[Len(group)]

\* value = int(points * difficulty * variance), difficulty 1.0
BasePoints(cls) ==
    CASE cls = "heavy" -> 40
      [] cls = "dart" -> 5
      [] cls = "shield" -> 20
      [] OTHER -> 10

\* random.uniform(0.8, 1.2), for a dart (0.9, 1.3): in percent, sampled at
\* both ends and the middle
VarianceSamples(cls) ==
    IF cls = "dart" THEN {90, 130} ELSE {80, 120}

EnemyValues(cls) ==
    {Trunc(BasePoints(cls) * v, 100) : v \in VarianceSamples(cls)}

Enemy(cls, value) == [cls |-> cls, value |-> value]

EnemyProjectile == [damage |-> 5]

(***************************************************************************)
(* EnemyManager (engine/managers/enemy_manager.py).                        *)
(***************************************************************************)
EmptyTimers == [k \in {} |-> 0]

TimerGet(timers, k) == IF k \in DOMAIN timers THEN timers[k] ELSE 0

TimerPut(timers, k, v) ==
    [x \in DOMAIN timers \cup {k} |-> IF x = k THEN v ELSE timers[x]]

\* f"{type}_{enemy_type}"
FormationKey(def) == <<def.type, def.enemy_type>>

\* random.randint(-150, 150), sampled
XOffsetSamples == {-150, 0, 150}

\* every archetype given a layout drawn at random
LayoutChoices_random(enemy_type) ==
    {"line", "v_shape", "arc", "circle", "diamond"}

\* the layout set_waves gives a legacy enemy definition
LayoutChoices(enemy_type) ==
    CASE enemy_type = "zigzag" -> {"v_shape"}
      [] enemy_type = "shooter" -> {"line"}
      [] enemy_type = "heavy" -> {"diamond"}
      [] enemy_type = "shield" -> {"arc"}
      [] enemy_type = "dart" -> {"circle"}
      [] OTHER -> {"line", "v_shape", "arc"}

RECURSIVE SynthesizeFormations(_)
SynthesizeFormations(defs) ==
    IF defs = <<>>
    THEN {<<>>}
    ELSE LET d == Head(defs)
         IN  {<<[type |-> layout, enemy_type |-> d.type, count |-> d.count,
                 interval |-> d.interval, x_offset |-> off]>> \o rest :
                 layout \in LayoutChoices(d.type),
                 off \in XOffsetSamples,
                 rest \in SynthesizeFormations(Tail(defs))}

RECURSIVE ProcessWaves(_)
ProcessWaves(ws) ==
    IF ws = <<>>
    THEN {<<>>}
    ELSE LET w == Head(ws)
         IN  IF w.has_formations
             THEN {<<w>> \o rest : rest \in ProcessWaves(Tail(ws))}
             ELSE {<<[w EXCEPT !.has_formations = TRUE, !.formations = fs]>>
                     \o rest :
                     fs \in SynthesizeFormations(w.enemies),
                     rest \in ProcessWaves(Tail(ws))}

\* set_waves leaving a wave timer and a formation timer of 0.1 s behind
EnemyManager_set_waves_under_way(ws) ==
    {[wm |-> [waves |-> installed, wave_index |-> 0, wave_timer |-> 1],
      active_formations |-> <<>>,
      formation_timers |-> TimerPut(EmptyTimers, <<"line", "basic">>, 1)] :
        installed \in ProcessWaves(ws)}

\* The outcomes of set_waves(ws): the manager's fields after the call.
EnemyManager_set_waves(ws) ==
    {[wm |-> WaveManager_set_waves(installed),
      active_formations |-> <<>>,
      formation_timers |-> EmptyTimers] : installed \in ProcessWaves(ws)}

RECURSIVE AddProjectiles(_, _)
AddProjectiles(group, n) ==
    IF n = 0 THEN group
    ELSE AddProjectiles(Append(group, EnemyProjectile), n - 1)

\* _update_enemies leaving the completed formations in the list
EnemyManager_update_enemies_keeping(group, projectiles, formations) ==
    {[enemies |-> Without(group, gone),
      enemy_projectiles |-> AddProjectiles(projectiles, Cardinality(firing)),
      active_formations |-> formations] :
        gone \in SUBSET (1..Len(group)),
        firing \in SUBSET {i \in 1..Len(group) : group[i].cls = "shooter"}}

\* The outcomes of _update_enemies: each enemy moves and is killed once it
\* has left the screen; each shooter may fire; completed formations go.
EnemyManager_update_enemies(group, projectiles, formations) ==
    {[enemies |-> Without(group, gone),
      enemy_projectiles |-> AddProjectiles(projectiles, Cardinality(firing)),
      active_formations |-> SelectSeq(formations, LAMBDA a : ~a.fp.complete)] :
        gone \in SUBSET (1..Len(group)),
        firing \in SUBSET {i \in 1..Len(group) : group[i].cls = "shooter"}}

\* _spawn_enemy holding the new enemy back from the enemies group
EnemyManager_spawn_enemy_held(group, enemy_type) == {group}

\* The outcomes of _spawn_enemy(enemy_type, x_pos): the enemies group after.
EnemyManager_spawn_enemy(group, enemy_type) ==
    LET cls == IF enemy_type \in EnemyTypes THEN enemy_type ELSE "basic"
    IN  {Append(group, Enemy(cls, v)) : v \in EnemyValues(cls)}

RECURSIVE SpawnAll(_, _)
SpawnAll(spawns, group) ==
    IF spawns = <<>>
    THEN {group}
    ELSE UNION {SpawnAll(Tail(spawns), g) :
                  g \in EnemyManager_spawn_enemy(group, Head(spawns).enemy_type)}

\* "Process existing formations": every active formation is updated in list
\* order; the outcomes are the list after and the spawns requested.
RECURSIVE UpdateFormations(_, _, _)
UpdateFormations(formations, dt, now) ==
    IF formations = <<>>
    THEN {[formations |-> <<>>, spawns |-> <<>>]}
    ELSE LET a == Head(formations)
         IN  {[formations |->
                  <<[a EXCEPT !.fp = o.f,
                              !.age = IF a.fp.complete THEN @ ELSE @ + dt]>>
                     \o r.formations,
               spawns |->
                  (IF o.spawn
                   THEN <<[t |-> now, enemy_type |-> a.fp.enemy_type,
                           x |-> o.x, index |-> a.fp.spawned_count,
                           age |-> a.age + dt, born |-> a.born]>>
                   ELSE <<>>) \o r.spawns] :
                 o \in FormationPattern_update(a.fp, dt),
                 r \in UpdateFormations(Tail(formations), dt, now)}

\* formations started only for a definition none of whose formations is
\* still spawning
RECURSIVE StartFormations_exclusive(_, _, _, _, _, _)
StartFormations_exclusive(defs, timers, formations, dt, idx, now) ==
    IF defs = <<>>
    THEN [formation_timers |-> timers, active_formations |-> formations]
    ELSE LET d == Head(defs)
             k == FormationKey(d)
             t == TimerGet(timers, k) + dt
             busy == \E i \in 1..Len(formations) :
                        /\ ~formations[i].fp.complete
                        /\ formations[i].fp.formation_type = d.type
                        /\ formations[i].fp.enemy_type = d.enemy_type
             due == t * d.interval.den >= d.interval.num /\ ~busy
             fp == FormationPattern_init(d.type, d.enemy_type, d.count,
                       ScreenWidth, SpawnDelay, d.x_offset, DefaultSpacing)
         IN  StartFormations_exclusive(
                 Tail(defs),
                 TimerPut(timers, k, IF due THEN 0 ELSE t),
                 IF due
                 THEN Append(formations,
                             [fp |-> fp, born |-> idx, age |-> 0])
                 ELSE formations,
                 dt, idx, now)

\* "Check if we need to start new formations": the definitions of the wave
\* in order, each advancing the timer of its key.
RECURSIVE StartFormations(_, _, _, _, _, _)
StartFormations(defs, timers, formations, dt, idx, now) ==
    IF defs = <<>>
    THEN [formation_timers |-> timers, active_formations |-> formations]
    ELSE LET d == Head(defs)
             k == FormationKey(d)
             t == TimerGet(timers, k) + dt
             due == t * d.interval.den >= d.interval.num
             fp == FormationPattern_init(d.type, d.enemy_type, d.count,
                       ScreenWidth, SpawnDelay, d.x_offset, DefaultSpacing)
         IN  StartFormations(
                 Tail(defs),
                 TimerPut(timers, k, IF due THEN 0 ELSE t),
                 IF due
                 THEN Append(formations,
                             [fp |-> fp, born |-> idx, age |-> 0])
                 ELSE formations,
                 dt, idx, now)

\* The outcomes of _process_formation_spawns(dt).
EnemyManager_process_formation_spawns(ws, idx, timers, formations, group, dt, now) ==
    LET current_wave == WaveManager_get_current_wave(ws, idx)
    IN  IF current_wave = None
        THEN {[formation_timers |-> timers, active_formations |-> formations,
               enemies |-> group, spawns |-> <<>>]}
        ELSE UNION {
               LET started ==
                     IF current_wave.has_formations
                     THEN StartFormations(current_wave.formations, timers,
                                          u.formations, dt, idx, now)
                     ELSE [formation_timers |-> timers,
                           active_formations |-> u.formations]
               IN  {[formation_timers |-> started.formation_timers,
                     active_formations |-> started.active_formations,
                     enemies |-> g, spawns |-> u.spawns] :
                       g \in SpawnAll(u.spawns, group)} :
               u \in UpdateFormations(formations, dt, now)}

\* The outcomes of update(dt, game_time): _update_enemies, then
\* _process_formation_spawns.
EnemyManager_update(ws, idx, timers, formations, group, projectiles, dt, now) ==
    UNION {
      {[formation_timers |-> p.formation_timers,
        active_formations |-> p.active_formations,
        enemies |-> p.enemies,
        enemy_projectiles |-> e.enemy_projectiles,
        spawns |-> p.spawns] :
          p \in EnemyManager_process_formation_spawns(
                    ws, idx, timers, e.active_formations, e.enemies,
                    dt, now)} :
      e \in EnemyManager_update_enemies(group, projectiles, formations)}

\* update_wave_timer without the clearing of the formation state
EnemyManager_update_wave_timer_keeping(ws, idx, timer, timers, formations, dt) ==
    LET r == WaveManager_update_wave_timer(ws, idx, timer, dt)
    IN  [wave_index |-> r.wave_index, wave_timer |-> r.wave_timer,
         formation_timers |-> timers, active_formations |-> formations,
         ret |-> r.ret]

EnemyManager_update_wave_timer(ws, idx, timer, timers, formations, dt) ==
    LET r == WaveManager_update_wave_timer(ws, idx, timer, dt)
    IN  [wave_index |-> r.wave_index, wave_timer |-> r.wave_timer,
         formation_timers |-> IF r.ret THEN EmptyTimers ELSE timers,
         active_formations |-> IF r.ret THEN <<>> ELSE formations,
         ret |-> r.ret]

\* advance_wave clearing the formation state whatever the timeline answers
EnemyManager_advance_wave_clearing(ws, idx, timer, timers, formations) ==
    LET r == WaveManager_advance_wave(ws, idx, timer)
    IN  [wave_index |-> r.wave_index, wave_timer |-> r.wave_timer,
         formation_timers |-> EmptyTimers, active_formations |-> <<>>,
         ret |-> r.ret]

EnemyManager_advance_wave(ws, idx, timer, timers, formations) ==
    LET r == WaveManager_advance_wave(ws, idx, timer)
    IN  [wave_index |-> r.wave_index, wave_timer |-> r.wave_timer,
         formation_timers |-> IF r.ret THEN EmptyTimers ELSE timers,
         active_formations |-> IF r.ret THEN <<>> ELSE formations,
         ret |-> r.ret]

EnemyManager_clear_enemies(timers) ==
    [enemies |-> <<>>, active_formations |-> <<>>,
     formation_timers |-> timers]

EnemyManager_reset(ws) ==
    [wm |-> WaveManager_reset(ws),
     formation_timers |-> EmptyTimers, active_formations |-> <<>>]

(***************************************************************************)
(* The wave lists installed.                                               *)
(***************************************************************************)
FormationDef(type, enemy_type, count, ticks, x_offset) ==
    [type |-> type, enemy_type |-> enemy_type, count |-> count,
     interval |-> Interval(ticks), x_offset |-> x_offset]

EnemyDef(type, count, ticks) ==
    [type |-> type, count |-> count, interval |-> Interval(ticks)]

FormationWave(duration, formations) ==
    [duration |-> duration, enemies |-> <<>>,
     has_formations |-> TRUE, formations |-> formations]

LegacyWave(duration, defs) ==
    [duration |-> duration, enemies |-> defs,
     has_formations |-> FALSE, formations |-> <<>>]

\* one wave: archetype basic, count 3, interval 2.0 s, LINE
ScenarioWaves ==
    <<FormationWave(100, <<FormationDef("line", "basic", 3, 20, 0)>>)>>

TwoWaves ==
    <<FormationWave(7, <<FormationDef("line", "basic", 2, 4, 0)>>),
      FormationWave(8, <<FormationDef("v_shape", "zigzag", 2, 3, 150)>>)>>

LegacyWaves ==
    <<LegacyWave(6, <<EnemyDef("basic", 1, 3)>>),
      LegacyWave(6, <<EnemyDef("dart", 2, 3)>>)>>

WaveLists == {<<>>, TwoWaves, LegacyWaves}

(***************************************************************************)
(* LevelManager (engine/managers/level_manager.py).                        *)
(***************************************************************************)
RECURSIVE Pow(_, _)
Pow(b, e) == IF e = 0 THEN 1 ELSE b * Pow(b, e - 1)

Min(a, b) == IF a <= b THEN a ELSE b

\* the count without the ceiling of three times the base count
LevelManager_scale_count_uncapped(level, base_count) ==
    base_count + level \div 2

\* scaled_enemy["count"]
LevelManager_scale_count(level, base_count) ==
    Min(base_count + level \div 2, base_count * 3)

\* the interval without the floor of 0.5 s
LevelManager_scale_interval_unfloored(level, base_interval) ==
    [num |-> base_interval.num * Pow(4, level - 1),
     den |-> base_interval.den * Pow(5, level - 1)]

\* scaled_enemy["interval"] = max(base_interval * 0.8 ** (level - 1), 0.5):
\* 0.8 is 4/5 and 0.5 s is 5 ticks
LevelManager_scale_interval(level, base_interval) ==
    LET p == base_interval.num * Pow(4, level - 1)
        q == base_interval.den * Pow(5, level - 1)
    IN  IF p >= 5 * q THEN [num |-> p, den |-> q] ELSE [num |-> 5, den |-> 1]

ScaledWaves(level, ws) ==
    [i \in 1..Len(ws) |->
        LegacyWave(ws[i].duration,
            [j \in 1..Len(ws[i].enemies) |->
                LET enemy_def == ws[i].enemies[j]
                IN  [enemy_def EXCEPT
                       !.count = LevelManager_scale_count(level, @),
                       !.interval = LevelManager_scale_interval(level, @)]])]

\* scale_difficulty writing the scaled definitions into its input
LevelManager_scale_difficulty_in_place(level, ws) ==
    [scaled_waves |-> ScaledWaves(level, ws),
     waves |-> ScaledWaves(level, ws),
     level_duration |-> 90 + (level - 1) * 15]

\* scale_difficulty(waves): the list returned, the input list after the
\* call and the level_duration the call leaves
LevelManager_scale_difficulty(level, ws) ==
    [scaled_waves |-> ScaledWaves(level, ws),
     waves |-> ws,
     level_duration |-> 90 + (level - 1) * 15]

\* update(dt) leaving the level timer alone in the call that completes
LevelManager_update_holding(time, duration, complete, dt) ==
    LET t == time + dt
    IN  IF t >= duration * 10 /\ ~complete
        THEN [level_time |-> time, level_complete |-> TRUE, ret |-> TRUE]
        ELSE [level_time |-> t, level_complete |-> complete, ret |-> FALSE]

\* update(dt): level_time in ticks against level_duration in seconds
LevelManager_update(time, duration, complete, dt) ==
    LET t == time + dt
    IN  IF t >= duration * 10 /\ ~complete
        THEN [level_time |-> t, level_complete |-> TRUE, ret |-> TRUE]
        ELSE [level_time |-> t, level_complete |-> complete, ret |-> FALSE]

LevelManager_reset_level_state == [level_time |-> 0, level_complete |-> FALSE]

\* the first waves of PlayingState.base_waves
BaseWaves ==
    <<LegacyWave(150, <<EnemyDef("basic", 1, 20)>>),
      LegacyWave(150, <<EnemyDef("basic", 2, 15)>>),
      LegacyWave(150, <<EnemyDef("basic", 1, 30), EnemyDef("zigzag", 1, 30)>>)>>

MaxLevel == 6       \* advance_level stops at this level
MaxBaseCount == 2   \* base counts 1..MaxBaseCount
MaxLevelTime == 1500 \* no level update once level_time has reached this
MaxCalls == 3       \* scale_difficulty is called at most this often

BaseIntervals == {4, 15, 20}

ScaleInputs ==
    {<<>>, BaseWaves}
    \cup {<<LegacyWave(150, <<EnemyDef("basic", c, b)>>)>> :
             c \in 1..MaxBaseCount, b \in BaseIntervals}

LevelManagerInit ==
    /\ current_level = 1
    /\ level_time = 0
    /\ level_duration = 90
    /\ level_complete = FALSE
    /\ base_waves = BaseWaves
    /\ scaled_waves = <<>>
    /\ scaled_level = 0
    /\ scale_calls = 0

(***************************************************************************)
(* Player, collectibles and the CollisionManager                           *)
(* (entities/player.py, entities/collectible.py,                           *)
(* engine/managers/collectible_manager.py, collision_manager.py).          *)
(* A sprite group is the sequence of its sprites in the order they were    *)
(* added; an overlap relation names sprites by their place in the group.   *)
(***************************************************************************)
Player_init ==
    [health |-> 100, max_health |-> 100, shield |-> 0, max_shield |-> 0,
     lives |-> 3, score |-> 0]

\* take_damage with a shield that absorbs only the hits it can take whole
Player_take_damage_whole(p, amount) ==
    LET hurt == IF p.shield >= amount /\ p.shield > 0
                THEN [p EXCEPT !.shield = @ - amount]
                ELSE [p EXCEPT !.health = @ - amount]
    IN  IF p.shield > 0 /\ p.shield >= amount
        THEN hurt
        ELSE IF hurt.health <= 0
             THEN IF hurt.lives - 1 <= 0
                  THEN [hurt EXCEPT !.health = 0, !.lives = @ - 1]
                  ELSE [hurt EXCEPT !.health = hurt.max_health,
                                    !.lives = @ - 1]
             ELSE hurt

\* Player.take_damage(amount): the player after the call
Player_take_damage(p, amount) ==
    LET hurt == IF p.shield > 0
                THEN IF p.shield >= amount
                     THEN [p EXCEPT !.shield = @ - amount]
                     ELSE [p EXCEPT !.shield = 0,
                                    !.health = @ - (amount - p.shield)]
                ELSE [p EXCEPT !.health = @ - amount]
    IN  IF p.shield > 0 /\ p.shield >= amount
        THEN hurt
        ELSE IF hurt.health <= 0
             THEN IF hurt.lives - 1 <= 0
                  THEN [hurt EXCEPT !.health = 0, !.lives = @ - 1]
                  ELSE [hurt EXCEPT !.health = hurt.max_health,
                                    !.lives = @ - 1]
             ELSE hurt

\* what Player.take_damage(amount) returns: False when the call took the
\* last life
Player_take_damage_ret(p, amount) ==
    LET q == Player_take_damage(p, amount)
    IN  ~(q.lives < p.lives /\ q.lives <= 0)

Star(value) == [kind |-> "star", value |-> value]
HealthPack == [kind |-> "health", value |-> 25]
ShieldPack == [kind |-> "shield", value |-> 50]
PlayerProjectile == [kind |-> "projectile"]
PlayerMissile == [kind |-> "missile"]

\* (n / d) * 100 kept as the fraction 100n / d; a second component of 0
\* marks a division by zero
Percent(n, d) == <<100 * n, d>>

\* PlayingState.stats as __init__ builds it; the rates start at 0
Stats_init ==
    [enemies_killed |-> 0, enemies_escaped |-> 0, stars_collected |-> 0,
     stars_missed |-> 0, shots_fired |-> 0, shots_hit |-> 0,
     accuracy |-> <<0, 1>>, collection_rate |-> <<0, 1>>,
     kill_rate |-> <<0, 1>>]

\* The rolls of random.randint(1, 100) that matter to spawn_collectibles:
\* one that passes at either chance, one that passes with the bonus only,
\* one that fails.
RollSamples == {30, 50, 51}

RECURSIVE RollSeqs(_)
RollSeqs(n) ==
    IF n = 0 THEN {<<>>}
    ELSE {Append(q, r) : q \in RollSeqs(n - 1), r \in RollSamples}

\* The outcomes of spawn_collectibles(x, y, bonus_chance) for a roll: the
\* roll passes at 30, or at 50 with the bonus, and then a Star of value
\* 5..15, a HealthPack or a ShieldPack is added.
CollectibleManager_spawn_collectibles(group, bonus_chance, roll) ==
    IF roll <= (IF bonus_chance THEN 50 ELSE 30)
    THEN {Append(group, c) : c \in {Star(5), Star(15), HealthPack, ShieldPack}}
    ELSE {group}

\* one spawn_collectibles call for each roll, in order
RECURSIVE SpawnCollectiblesTimes(_, _, _)
SpawnCollectiblesTimes(group, rolls, bonus_chance) ==
    IF rolls = <<>> THEN {group}
    ELSE UNION {SpawnCollectiblesTimes(g, Tail(rolls), bonus_chance) :
                  g \in CollectibleManager_spawn_collectibles(
                            group, bonus_chance, Head(rolls))}

\* groupcollide giving every sprite of group_a all the sprites it overlaps
Collided_all(rel, a) == {b \in {pr[2] : pr \in rel} : <<a, b>> \in rel}

\* pygame.sprite.groupcollide(group_a, group_b, False, True): the sprites
\* of group_a are visited in order and each sprite of group_b is killed by
\* the first sprite of group_a that it overlaps
Collided(rel, a) ==
    {b \in {pr[2] : pr \in rel} :
        <<a, b>> \in rel /\ \A a2 \in 1..(a - 1) : <<a2, b>> \notin rel}

RECURSIVE SumValues(_, _)
SumValues(group, chosen) ==
    IF chosen = {} THEN 0
    ELSE LET i == CHOOSE j \in chosen : TRUE
         IN  group[i].value + SumValues(group, chosen \ {i})

\* the projectile step leaving the enemies it resolved in the group
CollisionManager_check_projectile_enemy_collisions_keeping(group, projectiles, items, p, st, rel) ==
    LET hits == {a \in 1..Len(group) : Collided(rel, a) # {}}
        used == UNION {Collided(rel, a) : a \in hits}
    IN  UNION {{[enemies |-> group,
                 player_projectiles |-> Without(projectiles, used),
                 collectibles |-> c,
                 player |-> [p EXCEPT !.score = @ + SumValues(group, hits)],
                 stats |-> [st EXCEPT !.shots_hit = @ + Cardinality(used),
                                      !.enemies_killed = @ + Cardinality(hits)],
                 killed |-> Without(group, (1..Len(group)) \ hits),
                 rolls |-> rolls] :
                  c \in SpawnCollectiblesTimes(items, rolls, FALSE)} :
               rolls \in RollSeqs(Cardinality(hits))}

\* The outcomes of _check_projectile_enemy_collisions(player); rolls holds
\* the spawn roll of each enemy killed, in the order of the group.
CollisionManager_check_projectile_enemy_collisions(group, projectiles, items, p, st, rel) ==
    LET hits == {a \in 1..Len(group) : Collided(rel, a) # {}}
        used == UNION {Collided(rel, a) : a \in hits}
    IN  UNION {{[enemies |-> Without(group, hits),
                 player_projectiles |-> Without(projectiles, used),
                 collectibles |-> c,
                 player |-> [p EXCEPT !.score = @ + SumValues(group, hits)],
                 stats |-> [st EXCEPT !.shots_hit = @ + Cardinality(used),
                                      !.enemies_killed = @ + Cardinality(hits)],
                 killed |-> Without(group, (1..Len(group)) \ hits),
                 rolls |-> rolls] :
                  c \in SpawnCollectiblesTimes(items, rolls, FALSE)} :
               rolls \in RollSeqs(Cardinality(hits))}

\* the missile step resolving its hits as the projectile step does
CollisionManager_check_missile_enemy_collisions_as_projectile(group, missiles, items, p, st, rel) ==
    LET hits == {a \in 1..Len(group) : Collided(rel, a) # {}}
        used == UNION {Collided(rel, a) : a \in hits}
    IN  UNION {{[enemies |-> Without(group, hits),
                 player_missiles |-> Without(missiles, used),
                 collectibles |-> c,
                 player |-> [p EXCEPT !.score = @ + SumValues(group, hits)],
                 stats |-> [st EXCEPT !.shots_hit = @ + Cardinality(used),
                                      !.enemies_killed = @ + Cardinality(hits)],
                 killed |-> Without(group, (1..Len(group)) \ hits),
                 rolls |-> rolls] :
                  c \in SpawnCollectiblesTimes(items, rolls, FALSE)} :
               rolls \in RollSeqs(Cardinality(hits))}

\* The outcomes of _check_missile_enemy_collisions(player).
CollisionManager_check_missile_enemy_collisions(group, missiles, items, p, st, rel) ==
    LET hits == {a \in 1..Len(group) : Collided(rel, a) # {}}
        used == UNION {Collided(rel, a) : a \in hits}
    IN  UNION {{[enemies |-> Without(group, hits),
                 player_missiles |-> Without(missiles, used),
                 collectibles |-> c,
                 player |-> [p EXCEPT !.score = @ + 2 * SumValues(group, hits)],
                 stats |-> [st EXCEPT !.enemies_killed = @ + Cardinality(hits)],
                 killed |-> Without(group, (1..Len(group)) \ hits),
                 rolls |-> rolls] :
                  c \in SpawnCollectiblesTimes(items, rolls, TRUE)} :
               rolls \in RollSeqs(Cardinality(hits))}

\* n calls of take_damage(amount) in a row
RECURSIVE TakeDamageTimes(_, _, _)
TakeDamageTimes(p, n, amount) ==
    IF n = 0 THEN p
    ELSE TakeDamageTimes(Player_take_damage(p, amount), n - 1, amount)

\* the enemy-player step damaging the player once for each enemy
CollisionManager_check_enemy_player_collisions_each(group, p, touching) ==
    IF touching # {}
    THEN LET q == TakeDamageTimes(p, Cardinality(touching), 10)
         IN  [enemies |-> Without(group, touching), player |-> q,
              ret |-> (q.lives <= 0)]
    ELSE [enemies |-> group, player |-> p, ret |-> FALSE]

\* the enemy-player step removing only the first enemy that overlaps
CollisionManager_check_enemy_player_collisions_first(group, p, touching) ==
    IF touching # {}
    THEN LET q == Player_take_damage(p, 10)
             first == CHOOSE i \in touching : \A j \in touching : i <= j
         IN  [enemies |-> Without(group, {first}), player |-> q,
              ret |-> (q.lives <= 0)]
    ELSE [enemies |-> group, player |-> p, ret |-> FALSE]

\* _check_enemy_player_collisions(player): touching holds the places of the
\* enemies that overlap the player
CollisionManager_check_enemy_player_collisions(group, p, touching) ==
    IF touching # {}
    THEN LET q == Player_take_damage(p, 10)
         IN  [enemies |-> Without(group, touching), player |-> q,
              ret |-> (q.lives <= 0)]
    ELSE [enemies |-> group, player |-> p, ret |-> FALSE]

\* the enemy-projectile step checking the lives after each projectile and
\* stopping once none is left
CollisionManager_check_enemy_projectile_player_collisions_each(projectiles, p, touching) ==
    IF touching # {}
    THEN LET n == Cardinality(touching)
             after[k \in 0..n] ==
                 IF k = 0 THEN p
                 ELSE IF after[k - 1].lives <= 0 THEN after[k - 1]
                 ELSE Player_take_damage(after[k - 1], 5)
         IN  [enemy_projectiles |-> Without(projectiles, touching),
              player |-> after[n], ret |-> (after[n].lives <= 0)]
    ELSE [enemy_projectiles |-> projectiles, player |-> p, ret |-> FALSE]

\* _check_enemy_projectile_player_collisions(player)
CollisionManager_check_enemy_projectile_player_collisions(projectiles, p, touching) ==
    IF touching # {}
    THEN LET q == TakeDamageTimes(p, Cardinality(touching), 5)
         IN  [enemy_projectiles |-> Without(projectiles, touching),
              player |-> q, ret |-> (q.lives <= 0)]
    ELSE [enemy_projectiles |-> projectiles, player |-> p, ret |-> FALSE]

\* the body of the loop of _check_player_collectible_collisions, for the
\* collectibles picked in the order of the group
RECURSIVE Collect(_, _, _, _, _, _)
Collect(items, touching, i, p, st, total) ==
    IF i > Len(items)
    THEN [player |-> p, stats |-> st, total_stars_collected |-> total]
    ELSE IF i \notin touching
    THEN Collect(items, touching, i + 1, p, st, total)
    ELSE LET c == items[i]
         IN  IF c.kind = "star"
             THEN Collect(items, touching, i + 1,
                      [p EXCEPT !.score = @ + c.value],
                      [st EXCEPT !.stars_collected = @ + 1],
                      total + c.value)
             ELSE IF c.kind = "health"
             THEN Collect(items, touching, i + 1,
                      [p EXCEPT !.health = Min(p.max_health, @ + c.value)],
                      st, total)
             ELSE Collect(items, touching, i + 1,
                      [p EXCEPT !.shield = Min(p.max_shield, @ + c.value)],
                      st, total)

\* the collectible step removing the stars only
CollisionManager_check_player_collectible_collisions_stars_only(items, p, st, total, touching) ==
    LET r == Collect(items, touching, 1, p, st, total)
    IN  [collectibles |->
             Without(items, {i \in touching : items[i].kind = "star"}),
         player |-> r.player, stats |-> r.stats,
         total_stars_collected |-> r.total_stars_collected]

\* _check_player_collectible_collisions(player)
CollisionManager_check_player_collectible_collisions(items, p, st, total, touching) ==
    LET r == Collect(items, touching, 1, p, st, total)
    IN  [collectibles |-> Without(items, touching), player |-> r.player,
         stats |-> r.stats,
         total_stars_collected |-> r.total_stars_collected]

\* check_collisions' player_killed after a step that returned ret, with a
\* later step's result replacing an earlier one
CollisionManager_check_collisions_killed_last(so_far, ret) == ret

\* check_collisions' player_killed after a step that returned ret
CollisionManager_check_collisions_killed(so_far, ret) == so_far \/ ret

CombatInit ==
    /\ player_projectiles = <<>>
    /\ player_missiles = <<>>
    /\ collectibles = <<>>
    /\ player = Player_init
    /\ stats = Stats_init
    /\ total_stars_collected = 0
    /\ player_killed = FALSE
    /\ overlap = {}
    /\ pass_enemies = <<>>
    /\ pass_collectibles = <<>>
    /\ killed = <<>>
    /\ detached_stats = None
    /\ playing_level = 1
    /\ base_score = 0
    /\ playing_stars = 0

(***************************************************************************)
(* The engine driven as PlayingState drives it: a frame is                 *)
(* update_wave_timer(dt) followed by update(dt, game_time) (playing_state  *)
(* .py 361-368); set_waves, advance_wave, reset and clear_enemies are      *)
(* called between frames.                                                  *)
(***************************************************************************)
NoFormation ==
    FormationPattern_init("line", "basic", 1, ScreenWidth, SpawnDelay, 0,
                          DefaultSpacing)

NoCall == Call("init", 0, FALSE)

Init ==
    /\ waves = <<>>
    /\ wave_index = 0
    /\ wave_timer = 0
    /\ formation_timers = EmptyTimers
    /\ active_formations = <<>>
    /\ enemies = <<>>
    /\ enemy_projectiles = <<>>
    /\ pc = "idle"
    /\ frame_dt = 0
    /\ elapsed = 0
    /\ ticks_only = FALSE
    /\ spawned = <<>>
    /\ n_spawned = 0
    /\ screen_height = GameHeight
    /\ save_file = None
    /\ formation = NoFormation
    /\ last = NoCall
    /\ LevelManagerInit
    /\ CombatInit

\* set_waves is called by PlayingState._setup_level only: on construction
\* and from enter(), after the sprite groups were emptied.
SetWaves ==
    /\ pc = "idle"
    /\ enemies = <<>>
    /\ enemy_projectiles = <<>>
    /\ \E ws \in WaveLists : \E r \in EnemyManager_set_waves(ws) :
          /\ waves' = r.wm.waves
          /\ wave_index' = r.wm.wave_index
          /\ wave_timer' = r.wm.wave_timer
          /\ formation_timers' = r.formation_timers
          /\ active_formations' = r.active_formations
    /\ elapsed' = 0
    /\ ticks_only' = TRUE
    /\ spawned' = <<>>
    /\ n_spawned' = 0
    /\ last' = Call("set_waves", 0, FALSE)
    /\ UNCHANGED <<enemies, enemy_projectiles, pc, frame_dt, formation, screen_height, save_file>>
    /\ UNCHANGED levelVars
    /\ UNCHANGED combatVars

UpdateWaveTimer ==
    /\ pc = "idle"
    /\ \E dt \in Dts :
          LET r == EnemyManager_update_wave_timer(
                       waves, wave_index, wave_timer, formation_timers,
                       active_formations, dt)
          IN  /\ wave_index' = r.wave_index
              /\ wave_timer' = r.wave_timer
              /\ formation_timers' = r.formation_timers
              /\ active_formations' = r.active_formations
              /\ frame_dt' = dt
              /\ last' = Call("update_wave_timer", dt, r.ret)
    /\ pc' = "update"
    /\ spawned' = <<>>
    /\ UNCHANGED <<waves, enemies, enemy_projectiles, elapsed, ticks_only,
                   n_spawned, formation, screen_height, save_file>>
    /\ UNCHANGED levelVars
    /\ UNCHANGED combatVars

Update ==
    /\ pc = "update"
    /\ \E r \in EnemyManager_update(
                    waves, wave_index, formation_timers, active_formations,
                    enemies, enemy_projectiles, frame_dt,
                    elapsed + frame_dt) :
          /\ formation_timers' = r.formation_timers
          /\ active_formations' = r.active_formations
          /\ enemies' = r.enemies
          /\ enemy_projectiles' = r.enemy_projectiles
          /\ spawned' = r.spawns
          /\ n_spawned' = IF ticks_only THEN n_spawned + Len(r.spawns) ELSE 0
    /\ elapsed' = IF ticks_only THEN elapsed + frame_dt ELSE 0
    /\ pc' = "idle"
    /\ last' = Call("update", frame_dt, FALSE)
    /\ UNCHANGED <<waves, wave_index, wave_timer, frame_dt, ticks_only,
                   formation, screen_height, save_file>>
    /\ UNCHANGED levelVars
    /\ UNCHANGED combatVars

AdvanceWave ==
    /\ pc = "idle"
    /\ LET r == EnemyManager_advance_wave(
                    waves, wave_index, wave_timer, formation_timers,
                    active_formations)
       IN  /\ wave_index' = r.wave_index
           /\ wave_timer' = r.wave_timer
           /\ formation_timers' = r.formation_timers
           /\ active_formations' = r.active_formations
           /\ last' = Call("advance_wave", 0, r.ret)
    /\ ticks_only' = FALSE
    /\ elapsed' = 0
    /\ n_spawned' = 0
    /\ spawned' = <<>>
    /\ UNCHANGED <<waves, enemies, enemy_projectiles, pc, frame_dt, formation, screen_height, save_file>>
    /\ UNCHANGED levelVars
    /\ UNCHANGED combatVars

Reset ==
    /\ pc = "idle"
    /\ LET r == EnemyManager_reset(waves)
       IN  /\ wave_index' = r.wm.wave_index
           /\ wave_timer' = r.wm.wave_timer
           /\ formation_timers' = r.formation_timers
           /\ active_formations' = r.active_formations
    /\ ticks_only' = FALSE
    /\ elapsed' = 0
    /\ n_spawned' = 0
    /\ last' = Call("reset", 0, FALSE)
    /\ spawned' = <<>>
    /\ UNCHANGED <<waves, enemies, enemy_projectiles, pc, frame_dt, formation, screen_height, save_file>>
    /\ UNCHANGED levelVars
    /\ UNCHANGED combatVars

ClearEnemies ==
    /\ pc = "idle"
    /\ LET r == EnemyManager_clear_enemies(formation_timers)
       IN  /\ enemies' = r.enemies
           /\ active_formations' = r.active_formations
           /\ formation_timers' = r.formation_timers
    /\ ticks_only' = FALSE
    /\ elapsed' = 0
    /\ n_spawned' = 0
    /\ last' = Call("clear_enemies", 0, FALSE)
    /\ spawned' = <<>>
    /\ UNCHANGED <<waves, wave_index, wave_timer, enemy_projectiles, pc, frame_dt, formation, screen_height, save_file>>
    /\ UNCHANGED levelVars
    /\ UNCHANGED combatVars

Next ==
    \/ SetWaves
    \/ (wave_timer < MaxTime /\ Len(enemies) < MaxEnemies /\ UpdateWaveTimer)
    \/ Update
    \/ AdvanceWave
    \/ Reset
    \/ ClearEnemies

Spec == Init /\ [][Next]_vars

(***************************************************************************)
(* The scenario wave installed and then driven by frames alone.            *)
(***************************************************************************)
InitScenario ==
    /\ \E r \in EnemyManager_set_waves(ScenarioWaves) :
          /\ waves = r.wm.waves
          /\ wave_index = r.wm.wave_index
          /\ wave_timer = r.wm.wave_timer
          /\ formation_timers = r.formation_timers
          /\ active_formations = r.active_formations
    /\ enemies = <<>>
    /\ enemy_projectiles = <<>>
    /\ pc = "idle"
    /\ frame_dt = 0
    /\ elapsed = 0
    /\ ticks_only = TRUE
    /\ spawned = <<>>
    /\ n_spawned = 0
    /\ screen_height = GameHeight
    /\ save_file = None
    /\ formation = NoFormation
    /\ last = Call("set_waves", 0, FALSE)
    /\ LevelManagerInit
    /\ CombatInit

NextScenario ==
    \/ (elapsed < ScenarioTime /\ UpdateWaveTimer)
    \/ Update

SpecScenario == InitScenario /\ [][NextScenario]_vars

(***************************************************************************)
(* The WaveManager driven on its own through its public methods.           *)
(***************************************************************************)
\* two waves of 5 s and 10 s
TimelineWaves == <<FormationWave(50, <<>>), FormationWave(100, <<>>)>>

ShortWaves ==
    <<FormationWave(3, <<>>), FormationWave(2, <<>>), FormationWave(4, <<>>)>>

TimelineLists == {<<>>, TimelineWaves, ShortWaves}

TimelineDts == {1, 50, 100}

engineRest == <<formation_timers, active_formations, enemies,
                enemy_projectiles, pc, frame_dt, elapsed, ticks_only,
                spawned, n_spawned, formation, screen_height, save_file>>

WaveManagerSetWaves ==
    /\ \E ws \in TimelineLists :
          LET r == WaveManager_set_waves(ws)
          IN  /\ waves' = r.waves
              /\ wave_index' = r.wave_index
              /\ wave_timer' = r.wave_timer
    /\ last' = Call("set_waves", 0, FALSE)
    /\ UNCHANGED engineRest
    /\ UNCHANGED levelVars
    /\ UNCHANGED combatVars

WaveManagerUpdateWaveTimer ==
    /\ \E dt \in TimelineDts :
          LET r == WaveManager_update_wave_timer(waves, wave_index,
                                                 wave_timer, dt)
          IN  /\ wave_index' = r.wave_index
              /\ wave_timer' = r.wave_timer
              /\ last' = Call("update_wave_timer", dt, r.ret)
    /\ UNCHANGED <<waves, engineRest>>
    /\ UNCHANGED levelVars
    /\ UNCHANGED combatVars

WaveManagerAdvanceWave ==
    /\ LET r == WaveManager_advance_wave(waves, wave_index, wave_timer)
       IN  /\ wave_index' = r.wave_index
           /\ wave_timer' = r.wave_timer
           /\ last' = Call("advance_wave", 0, r.ret)
    /\ UNCHANGED <<waves, engineRest>>
    /\ UNCHANGED levelVars
    /\ UNCHANGED combatVars

WaveManagerReset ==
    /\ LET r == WaveManager_reset(waves)
       IN  /\ wave_index' = r.wave_index
           /\ wave_timer' = r.wave_timer
    /\ last' = Call("reset", 0, FALSE)
    /\ UNCHANGED <<waves, engineRest>>
    /\ UNCHANGED levelVars
    /\ UNCHANGED combatVars

NextWave ==
    \/ WaveManagerSetWaves
    \/ (wave_timer < MaxTimer /\ WaveManagerUpdateWaveTimer)
    \/ WaveManagerAdvanceWave
    \/ WaveManagerReset

SpecWave == Init /\ [][NextWave]_vars

(***************************************************************************)
(* C1: for a non-empty wave list installed with set_waves, after any       *)
(* sequence of update_wave_timer(dt), advance_wave() and reset() calls the *)
(* wave index is within [0, number of waves), and get_current_wave()       *)
(* returns a wave definition.                                              *)
(***************************************************************************)
C1_IndexInRange ==
    Len(waves) > 0 =>
        /\ 0 <= wave_index
        /\ wave_index < Len(waves)
        /\ WaveManager_get_current_wave(waves, wave_index) # None
        /\ WaveManager_get_current_wave(waves, wave_index)
              \in {waves[i] : i \in 1..Len(waves)}

\* the timer of the last wave has run past the wave's duration
C1_Witness ==
    /\ Len(waves) = 3
    /\ wave_index = 2
    /\ wave_timer > waves[3].duration
    /\ last.op = "update_wave_timer"

(***************************************************************************)
(* C2: update_wave_timer(dt) adds dt to the wave timer; if the timer is    *)
(* then >= the duration of the active wave and the active wave is not the  *)
(* last, the index grows by exactly 1, the timer is 0 and the call returns *)
(* True; in every other case the index stays and the call returns False.   *)
(* With waves of 5 s and 10 s: update_wave_timer(5.0) gives index 1 and    *)
(* timer 0; update_wave_timer(10.0) then leaves index 1 and returns False. *)
(***************************************************************************)
C2_UpdateWaveTimer ==
    [][last'.op = "update_wave_timer" =>
         LET t == wave_timer + last'.dt
             due == /\ Len(waves) > 0
                    /\ t >= waves[wave_index + 1].duration
                    /\ wave_index # Len(waves) - 1
         IN  /\ IF due
                THEN /\ wave_index' = wave_index + 1
                     /\ wave_timer' = 0
                     /\ last'.ret
                ELSE /\ wave_index' = wave_index
                     /\ wave_timer' = t
                     /\ ~last'.ret
             /\ (waves = TimelineWaves /\ wave_index = 0 /\ wave_timer = 0
                    /\ last'.dt = 50)
                  => (wave_index' = 1 /\ wave_timer' = 0 /\ last'.ret)
             /\ (waves = TimelineWaves /\ wave_index = 1 /\ wave_timer = 0
                    /\ last'.dt = 100)
                  => (wave_index' = 1 /\ ~last'.ret)]_vars

\* update_wave_timer(10.0) on the second, last wave of the 5 s / 10 s list
C2_Witness ==
    /\ waves = TimelineWaves
    /\ wave_index = 1
    /\ wave_timer = 100
    /\ last = Call("update_wave_timer", 100, FALSE)

(***************************************************************************)
(* One FormationPattern driven on its own by update(dt).                   *)
(***************************************************************************)
SpacingSamples == {40, 45, DefaultSpacing}

InitFormation ==
    /\ waves = <<>>
    /\ wave_index = 0
    /\ wave_timer = 0
    /\ formation_timers = EmptyTimers
    /\ active_formations = <<>>
    /\ enemies = <<>>
    /\ enemy_projectiles = <<>>
    /\ pc = "idle"
    /\ frame_dt = 0
    /\ elapsed = 0
    /\ ticks_only = FALSE
    /\ spawned = <<>>
    /\ n_spawned = 0
    /\ screen_height = GameHeight
    /\ save_file = None
    /\ \E ftype \in FormationTypes, count \in 1..MaxCount,
          x_offset \in XOffsetSamples, spacing \in SpacingSamples :
          formation = FormationPattern_init(ftype, "basic", count,
                          ScreenWidth, SpawnDelay, x_offset, spacing)
    /\ last = NoCall
    /\ LevelManagerInit
    /\ CombatInit

FormationUpdate ==
    /\ \E dt \in Dts : \E o \in FormationPattern_update(formation, dt) :
          /\ formation' = o.f
          /\ spawned' =
                IF o.spawn
                THEN <<[t |-> 0, enemy_type |-> formation.enemy_type,
                        x |-> o.x, index |-> formation.spawned_count,
                        age |-> 0, born |-> 0]>>
                ELSE <<>>
          /\ last' = Call("formation_update", dt, o.spawn)
    /\ UNCHANGED <<waves, wave_index, wave_timer, formation_timers,
                   active_formations, enemies, enemy_projectiles, pc,
                   frame_dt, elapsed, ticks_only, n_spawned, screen_height, save_file>>
    /\ UNCHANGED levelVars
    /\ UNCHANGED combatVars

NextFormation == FormationUpdate

SpecFormation == InitFormation /\ [][NextFormation]_vars

(***************************************************************************)
(* C5: for a FormationPattern with count >= 1, after any sequence of       *)
(* update(dt) calls: spawned_count <= count; complete holds exactly when   *)
(* spawned_count = count; a call emits at most one spawn, at the position  *)
(* of index = spawned_count before the call; and on a complete formation   *)
(* update returns no spawn and changes no field.                           *)
(***************************************************************************)
C5_FormationPattern ==
    /\ [](/\ formation.spawned_count <= formation.count
          /\ formation.complete <=>
                (formation.spawned_count = formation.count))
    /\ [][last'.op = "formation_update" =>
            /\ Len(spawned') <= 1
            /\ last'.ret <=> (Len(spawned') = 1)
            /\ Len(spawned') = 1 =>
                  /\ spawned'[1].x \in
                        FormationPattern_get_position_for_index(
                            formation, formation.spawned_count)
                  /\ formation'.spawned_count = formation.spawned_count + 1
            /\ Len(spawned') = 0 =>
                  formation'.spawned_count = formation.spawned_count
            /\ formation.complete =>
                  (spawned' = <<>> /\ formation' = formation)]_vars

\* update(dt) has been called on a complete formation of three
C5_Witness ==
    /\ formation.complete
    /\ formation.count = 3
    /\ formation.spawned_count = 3
    /\ formation.formation_type = "arc"
    /\ last = Call("formation_update", 1, FALSE)
    /\ spawned = <<>>

(***************************************************************************)
(* The LevelManager driven through its methods, scale_difficulty applied   *)
(* to an input drawn from ScaleInputs.                                     *)
(***************************************************************************)
engineVars == <<waves, wave_index, wave_timer, formation_timers,
                active_formations, enemies, enemy_projectiles, pc, frame_dt,
                elapsed, ticks_only, spawned, n_spawned, formation, screen_height, save_file>>

InitScale ==
    /\ waves = <<>>
    /\ wave_index = 0
    /\ wave_timer = 0
    /\ formation_timers = EmptyTimers
    /\ active_formations = <<>>
    /\ enemies = <<>>
    /\ enemy_projectiles = <<>>
    /\ pc = "idle"
    /\ frame_dt = 0
    /\ elapsed = 0
    /\ ticks_only = FALSE
    /\ spawned = <<>>
    /\ n_spawned = 0
    /\ screen_height = GameHeight
    /\ save_file = None
    /\ formation = NoFormation
    /\ last = NoCall
    /\ current_level = 1
    /\ level_time = 0
    /\ level_duration = 90
    /\ level_complete = FALSE
    /\ base_waves \in ScaleInputs
    /\ scaled_waves = <<>>
    /\ scaled_level = 0
    /\ scale_calls = 0
    /\ CombatInit

ScaleDifficulty ==
    /\ LET r == LevelManager_scale_difficulty(current_level, base_waves)
       IN  /\ scaled_waves' = r.scaled_waves
           /\ base_waves' = r.waves
           /\ level_duration' = r.level_duration
    /\ scaled_level' = current_level
    /\ scale_calls' = scale_calls + 1
    /\ last' = Call("scale_difficulty", 0, FALSE)
    /\ UNCHANGED <<current_level, level_time, level_complete, engineVars>>
    /\ UNCHANGED combatVars

LevelUpdate ==
    /\ \E dt \in {450} :
          LET r == LevelManager_update(level_time, level_duration,
                                       level_complete, dt)
          IN  /\ level_time' = r.level_time
              /\ level_complete' = r.level_complete
              /\ last' = Call("level_update", dt, r.ret)
    /\ UNCHANGED <<current_level, level_duration, base_waves, scaled_waves,
                   scaled_level, scale_calls, engineVars>>
    /\ UNCHANGED combatVars

AdvanceLevel ==
    /\ current_level' = current_level + 1
    /\ level_time' = LevelManager_reset_level_state.level_time
    /\ level_complete' = LevelManager_reset_level_state.level_complete
    /\ last' = Call("advance_level", 0, FALSE)
    /\ UNCHANGED <<level_duration, base_waves, scaled_waves, scaled_level,
                   scale_calls, engineVars>>
    /\ UNCHANGED combatVars

ResetForNewGame ==
    /\ current_level' = 1
    /\ level_time' = LevelManager_reset_level_state.level_time
    /\ level_complete' = LevelManager_reset_level_state.level_complete
    /\ last' = Call("reset_for_new_game", 0, FALSE)
    /\ UNCHANGED <<level_duration, base_waves, scaled_waves, scaled_level,
                   scale_calls, engineVars>>
    /\ UNCHANGED combatVars

NextScale ==
    \/ (scale_calls < MaxCalls /\ ScaleDifficulty)
    \/ (level_time < MaxLevelTime /\ LevelUpdate)
    \/ (current_level < MaxLevel /\ AdvanceLevel)
    \/ ResetForNewGame

SpecScale == InitScale /\ [][NextScale]_vars

\* the places <<wave, enemy definition>> of a wave list
Places(ws) ==
    UNION {{<<i, j>> : j \in 1..Len(ws[i].enemies)} : i \in 1..Len(ws)}

(***************************************************************************)
(* C7: for every level L >= 1 and base count C >= 1 scale_difficulty       *)
(* gives count' = min(C + L div 2, 3*C); count' never exceeds 3*C and does *)
(* not decrease when L grows.                                              *)
(***************************************************************************)
C7_ScaledCount ==
    /\ [](scaled_level > 0 =>
            \A pl \in Places(base_waves) :
               LET C == base_waves[pl[1]].enemies[pl[2]].count
                   L == scaled_level
                   c == scaled_waves[pl[1]].enemies[pl[2]].count
               IN  /\ c = IF C + L \div 2 <= 3 * C THEN C + L \div 2 ELSE 3 * C
                   /\ c <= 3 * C)
    /\ [][(/\ last'.op = "scale_difficulty"
           /\ scaled_level > 0
           /\ scaled_level <= scaled_level')
          => \A pl \in Places(base_waves) :
                scaled_waves'[pl[1]].enemies[pl[2]].count
                   >= scaled_waves[pl[1]].enemies[pl[2]].count]_vars

\* base count 1 at level 6: 1 + 3 is cut to 3, after an earlier scaling
C7_Witness ==
    /\ scaled_level = 6
    /\ scale_calls >= 2
    /\ Len(base_waves) = 1
    /\ base_waves[1].enemies[1].count = 1
    /\ scaled_waves[1].enemies[1].count = 3

(***************************************************************************)
(* C8: for every level L >= 1 and base interval b > 0 scale_difficulty     *)
(* gives interval' = max(b * 0.8^(L-1), 0.5 s); interval' is never below   *)
(* 0.5 s and does not increase when L grows.  (0.5 s is 5 ticks.)          *)
(***************************************************************************)
C8_ScaledInterval ==
    /\ [](scaled_level > 0 =>
            \A pl \in Places(base_waves) :
               LET b == base_waves[pl[1]].enemies[pl[2]].interval
                   r == scaled_waves[pl[1]].enemies[pl[2]].interval
                   p == b.num * Pow(4, scaled_level - 1)
                   q == b.den * Pow(5, scaled_level - 1)
               IN  /\ p >= 5 * q => r.num * q = p * r.den
                   /\ p < 5 * q => r.num = 5 * r.den
                   /\ r.num >= 5 * r.den)
    /\ [][(/\ last'.op = "scale_difficulty"
           /\ scaled_level > 0
           /\ scaled_level <= scaled_level')
          => \A pl \in Places(base_waves) :
                LET old == scaled_waves[pl[1]].enemies[pl[2]].interval
                    new == scaled_waves'[pl[1]].enemies[pl[2]].interval
                IN  new.num * old.den <= old.num * new.den]_vars

\* 1.5 s at level 6 would be 0.49 s and is held at 0.5 s
C8_Witness ==
    /\ scaled_level = 6
    /\ scale_calls >= 2
    /\ Len(base_waves) = 1
    /\ base_waves[1].enemies[1].interval = Interval(15)
    /\ scaled_waves[1].enemies[1].interval = Interval(5)

(***************************************************************************)
(* C9: scale_difficulty is pure and free of side effects.  As stated: the  *)
(* input wave list with its waves and enemy definitions is unchanged, no   *)
(* other state changes, and two calls for the same level and input return  *)
(* equal lists.                                                            *)
(***************************************************************************)
C9_NoSideEffect ==
    [][last'.op = "scale_difficulty" =>
         /\ base_waves' = base_waves
         /\ UNCHANGED <<lmVars, engineVars>>
         /\ scaled_level = current_level => scaled_waves' = scaled_waves]_vars

\* C9, as the code has it: the input wave list with its waves and enemy
\* definitions is unchanged, two calls for the same level and input return
\* equal lists, and the one field the call writes is level_duration, set
\* to 90 + (level - 1) * 15 seconds.
C9_OnlyLevelDuration ==
    [][last'.op = "scale_difficulty" =>
         /\ base_waves' = base_waves
         /\ UNCHANGED <<current_level, level_time, level_complete,
                        engineVars>>
         /\ level_duration' = 90 + (current_level - 1) * 15
         /\ scaled_level = current_level => scaled_waves' = scaled_waves]_vars

\* a second call at level 3, the level lasting 120 s
C9_Witness ==
    /\ last.op = "scale_difficulty"
    /\ current_level = 3
    /\ scaled_level = 3
    /\ scale_calls = 2
    /\ level_duration = 120
    /\ base_waves = BaseWaves

(***************************************************************************)
(* check_collisions(player) run over a population drawn at the start: the  *)
(* five steps in the order of the code, each with the overlaps it finds.   *)
(***************************************************************************)
MaxShots == 2       \* up to this many player projectiles in flight

CombatEnemies ==
    {<<>>, <<Enemy("basic", 10)>>, <<Enemy("basic", 10), Enemy("dart", 6)>>,
     <<Enemy("heavy", 48), Enemy("basic", 12)>>}

CombatPlayers ==
    {Player_init,
     [Player_init EXCEPT !.health = 10, !.lives = 1, !.score = 40],
     [Player_init EXCEPT !.health = 5, !.shield = 5, !.max_shield = 50,
                         !.lives = 2]}

RECURSIVE Repeat(_, _)
Repeat(x, n) == IF n = 0 THEN <<>> ELSE Append(Repeat(x, n - 1), x)

\* the step of check_collisions just run, with the spawn rolls it drew
Rolled(op, rolls) == [op |-> op, dt |-> 0, ret |-> FALSE, rolls |-> rolls]

combatRest == <<waves, wave_index, wave_timer, formation_timers,
                active_formations, frame_dt, elapsed, ticks_only, spawned,
                n_spawned, formation, screen_height, save_file, levelVars>>

InitCombat ==
    /\ waves = <<>>
    /\ wave_index = 0
    /\ wave_timer = 0
    /\ formation_timers = EmptyTimers
    /\ active_formations = <<>>
    /\ enemies \in CombatEnemies
    /\ enemy_projectiles \in {Repeat(EnemyProjectile, n) : n \in 0..2}
    /\ pc = "projectile_enemy"
    /\ frame_dt = 0
    /\ elapsed = 0
    /\ ticks_only = FALSE
    /\ spawned = <<>>
    /\ n_spawned = 0
    /\ screen_height = GameHeight
    /\ save_file = None
    /\ formation = NoFormation
    /\ last = NoCall
    /\ LevelManagerInit
    /\ player_projectiles \in
          {Repeat(PlayerProjectile, n) : n \in 0..MaxShots}
    /\ player_missiles \in {Repeat(PlayerMissile, n) : n \in 0..1}
    /\ collectibles \in {<<>>, <<Star(10)>>, <<HealthPack, ShieldPack>>}
    /\ player \in CombatPlayers
    /\ stats = Stats_init
    /\ total_stars_collected = 0
    /\ player_killed = FALSE
    /\ overlap = {}
    /\ pass_enemies = enemies
    /\ pass_collectibles = collectibles
    /\ killed = <<>>
    /\ detached_stats = None
    /\ playing_level = 1
    /\ base_score = player.score
    /\ playing_stars = 0

\* the dictionary the CollisionManager updates: the one handed over with
\* set_stats_reference, which is PlayingState.stats until that is rebound
CollisionManager_stats ==
    IF detached_stats = None THEN stats ELSE detached_stats

\* the CollisionManager's dictionary becomes st
StatsWritten(st) ==
    IF detached_stats = None
    THEN stats' = st /\ detached_stats' = detached_stats
    ELSE stats' = stats /\ detached_stats' = st

CheckProjectileEnemy ==
    /\ pc = "projectile_enemy"
    /\ \E rel \in SUBSET ((1..Len(enemies)) \X (1..Len(player_projectiles))) :
       \E r \in CollisionManager_check_projectile_enemy_collisions(
                    enemies, player_projectiles, collectibles, player,
                    CollisionManager_stats, rel) :
          /\ enemies' = r.enemies
          /\ player_projectiles' = r.player_projectiles
          /\ collectibles' = r.collectibles
          /\ player' = r.player
          /\ StatsWritten(r.stats)
          /\ overlap' = rel
          /\ last' = Rolled("projectile_enemy", r.rolls)
          /\ killed' = killed \o r.killed
    /\ player_killed' = FALSE
    /\ pc' = "missile_enemy"
    /\ UNCHANGED <<enemy_projectiles, player_missiles,
                   total_stars_collected, pass_enemies,
                   pass_collectibles, playingVars, combatRest>>

CheckMissileEnemy ==
    /\ pc = "missile_enemy"
    /\ \E rel \in SUBSET ((1..Len(enemies)) \X (1..Len(player_missiles))) :
       \E r \in CollisionManager_check_missile_enemy_collisions(
                    enemies, player_missiles, collectibles, player,
                    CollisionManager_stats, rel) :
          /\ enemies' = r.enemies
          /\ player_missiles' = r.player_missiles
          /\ collectibles' = r.collectibles
          /\ player' = r.player
          /\ StatsWritten(r.stats)
          /\ overlap' = rel
          /\ last' = Rolled("missile_enemy", r.rolls)
          /\ killed' = killed \o r.killed
    /\ pc' = "enemy_player"
    /\ UNCHANGED <<enemy_projectiles, player_projectiles,
                   total_stars_collected, player_killed, pass_enemies,
                   pass_collectibles,
                   playingVars, combatRest>>

CheckEnemyPlayer ==
    /\ pc = "enemy_player"
    /\ \E touching \in SUBSET (1..Len(enemies)) :
          LET r == CollisionManager_check_enemy_player_collisions(
                       enemies, player, touching)
          IN  /\ enemies' = r.enemies
              /\ player' = r.player
              /\ player_killed' =
                    CollisionManager_check_collisions_killed(player_killed,
                                                             r.ret)
              /\ last' = Call("enemy_player", 0, r.ret)
              /\ overlap' = touching
    /\ pc' = "enemy_projectile_player"
    /\ UNCHANGED <<enemy_projectiles, player_projectiles, player_missiles,
                   collectibles, stats, total_stars_collected, pass_enemies,
                   pass_collectibles,
                   killed, detached_stats, playingVars,
                   combatRest>>

CheckEnemyProjectilePlayer ==
    /\ pc = "enemy_projectile_player"
    /\ \E touching \in SUBSET (1..Len(enemy_projectiles)) :
          LET r == CollisionManager_check_enemy_projectile_player_collisions(
                       enemy_projectiles, player, touching)
          IN  /\ enemy_projectiles' = r.enemy_projectiles
              /\ player' = r.player
              /\ player_killed' =
                    CollisionManager_check_collisions_killed(player_killed,
                                                             r.ret)
              /\ last' = Call("enemy_projectile_player", 0, r.ret)
              /\ overlap' = touching
    /\ pc' = "player_collectible"
    /\ UNCHANGED <<enemies, player_projectiles, player_missiles,
                   collectibles, stats, total_stars_collected, pass_enemies,
                   pass_collectibles,
                   killed, detached_stats, playingVars,
                   combatRest>>

\* the last step; check_collisions returns player_killed
CheckPlayerCollectible ==
    /\ pc = "player_collectible"
    /\ \E touching \in SUBSET (1..Len(collectibles)) :
          LET r == CollisionManager_check_player_collectible_collisions(
                       collectibles, player, CollisionManager_stats,
                       total_stars_collected, touching)
          IN  /\ collectibles' = r.collectibles
              /\ player' = r.player
              /\ StatsWritten(r.stats)
              /\ total_stars_collected' = r.total_stars_collected
              /\ overlap' = touching
    /\ last' = Call("check_collisions", 0, player_killed)
    /\ pc' = "idle"
    /\ UNCHANGED <<enemies, enemy_projectiles, player_projectiles,
                   player_missiles, player_killed, pass_enemies,
                   pass_collectibles, killed,
                   playingVars, combatRest>>

NextCombat ==
    \/ CheckProjectileEnemy
    \/ CheckMissileEnemy
    \/ CheckEnemyPlayer
    \/ CheckEnemyProjectilePlayer
    \/ CheckPlayerCollectible

SpecCombat == InitCombat /\ [][NextCombat]_vars

(***************************************************************************)
(* C10: in the projectile step of check_collisions.  As stated: every      *)
(* enemy overlapped by at least one player projectile is removed from the  *)
(* population, the score grows by exactly its value, enemies_killed by     *)
(* exactly 1 and shots_hit by the number of projectiles consumed on it,    *)
(* and those projectiles are removed.  (Value 10, one projectile,          *)
(* shots_hit 0 before: shots_hit 1, enemies_killed 1, score + 10.)         *)
(***************************************************************************)
C10_EveryOverlappedEnemy ==
    [][last'.op = "projectile_enemy" =>
         LET struck == {pr[1] : pr \in overlap'}
             used == {pr[2] : pr \in overlap'}
         IN  /\ enemies' = Without(enemies, struck)
             /\ player_projectiles' = Without(player_projectiles, used)
             /\ player'.score = player.score + SumValues(enemies, struck)
             /\ stats'.enemies_killed =
                   stats.enemies_killed + Cardinality(struck)
             /\ stats'.shots_hit = stats.shots_hit + Cardinality(used)]_vars

\* C10, as the code has it: a projectile is consumed on the first enemy,
\* in the order of the group, that it overlaps.  Every enemy on which at
\* least one projectile is consumed is removed, the score grows by exactly
\* its value, enemies_killed by exactly 1 and shots_hit by the number of
\* projectiles consumed on it, and those projectiles are removed; an enemy
\* whose overlapping projectiles were all consumed on earlier enemies
\* stays, and so does a projectile that overlaps no enemy.
C10_EveryStruckEnemy ==
    [][last'.op = "projectile_enemy" =>
         LET on(a) == {b \in 1..Len(player_projectiles) :
                          /\ <<a, b>> \in overlap'
                          /\ \A a2 \in 1..Len(enemies) :
                                a2 < a => <<a2, b>> \notin overlap'}
             struck == {a \in 1..Len(enemies) : on(a) # {}}
             used == UNION {on(a) : a \in struck}
         IN  /\ enemies' = Without(enemies, struck)
             /\ player_projectiles' = Without(player_projectiles, used)
             /\ player'.score = player.score + SumValues(enemies, struck)
             /\ stats'.enemies_killed =
                   stats.enemies_killed + Cardinality(struck)
             /\ stats'.shots_hit = stats.shots_hit + Cardinality(used)
             /\ (/\ Len(enemies) = 1 /\ enemies[1].value = 10
                 /\ Len(player_projectiles) = 1 /\ overlap' # {})
                  => /\ stats'.shots_hit = 1
                     /\ stats'.enemies_killed = 1
                     /\ player'.score = player.score + 10
                     /\ enemies' = <<>>]_vars

\* one projectile over two enemies: the first is killed, the second stays
C10_Witness ==
    /\ last.op = "projectile_enemy"
    /\ overlap = {<<1, 1>>, <<2, 1>>}
    /\ enemies = <<Enemy("dart", 6)>>
    /\ player.score = 10
    /\ stats.shots_hit = 1
    /\ stats.enemies_killed = 1

(***************************************************************************)
(* C11: in the missile step of check_collisions.  As stated: every enemy   *)
(* overlapped by a player missile is resolved as in the projectile step    *)
(* (enemy removed, enemies_killed +1, shots_hit increased by the missiles  *)
(* consumed, a reward-spawn request issued), except that the score grows   *)
(* by exactly twice the enemy's value and the reward-spawn request uses    *)
(* the elevated probability tier.                                          *)
(***************************************************************************)
C11_AsProjectileStep ==
    [][last'.op = "missile_enemy" =>
         LET on(a) == {b \in 1..Len(player_missiles) :
                          /\ <<a, b>> \in overlap'
                          /\ \A a2 \in 1..Len(enemies) :
                                a2 < a => <<a2, b>> \notin overlap'}
             struck == {a \in 1..Len(enemies) : on(a) # {}}
             used == UNION {on(a) : a \in struck}
         IN  /\ enemies' = Without(enemies, struck)
             /\ player_missiles' = Without(player_missiles, used)
             /\ player'.score = player.score + 2 * SumValues(enemies, struck)
             /\ stats'.enemies_killed =
                   stats.enemies_killed + Cardinality(struck)
             /\ stats'.shots_hit = stats.shots_hit + Cardinality(used)
             /\ Len(last'.rolls) = Cardinality(struck)
             /\ Len(collectibles') = Len(collectibles) +
                   Cardinality({k \in 1..Len(last'.rolls) :
                                   last'.rolls[k] <= 50})]_vars

\* C11, as the code has it: a missile is consumed on the first enemy, in
\* the order of the group, that it overlaps.  Every enemy on which a
\* missile is consumed is removed, enemies_killed grows by exactly 1, the
\* score by exactly twice the enemy's value, and one reward-spawn request
\* is issued for it at the elevated chance (a roll of at most 50 in 100
\* adds a collectible, where the projectile step needs at most 30); the
\* consumed missiles are removed, and shots_hit and every other counter
\* of the statistics are left as they were.
C11_MissileStep ==
    [][last'.op = "missile_enemy" =>
         LET on(a) == {b \in 1..Len(player_missiles) :
                          /\ <<a, b>> \in overlap'
                          /\ \A a2 \in 1..Len(enemies) :
                                a2 < a => <<a2, b>> \notin overlap'}
             struck == {a \in 1..Len(enemies) : on(a) # {}}
             used == UNION {on(a) : a \in struck}
         IN  /\ enemies' = Without(enemies, struck)
             /\ player_missiles' = Without(player_missiles, used)
             /\ player'.score = player.score + 2 * SumValues(enemies, struck)
             /\ stats' = [stats EXCEPT !.enemies_killed =
                                          @ + Cardinality(struck)]
             /\ Len(last'.rolls) = Cardinality(struck)
             /\ Len(collectibles') = Len(collectibles) +
                   Cardinality({k \in 1..Len(last'.rolls) :
                                   last'.rolls[k] <= 50})
             /\ \A i \in 1..Len(collectibles) :
                   collectibles'[i] = collectibles[i]]_vars

\* a missile has killed the heavy enemy at a roll of 50: twice its value
\* is scored, a collectible is spawned and shots_hit stays 0
C11_Witness ==
    /\ last.op = "missile_enemy"
    /\ last.rolls = <<50>>
    /\ overlap = {<<1, 1>>}
    /\ enemies = <<Enemy("basic", 12)>>
    /\ player_missiles = <<>>
    /\ player.score = 96
    /\ stats.enemies_killed = 1
    /\ stats.shots_hit = 0
    /\ Len(collectibles) = 1

(***************************************************************************)
(* C12: check_collisions runs its steps in the order projectiles-enemies,  *)
(* missiles-enemies, enemies-player, enemy projectiles-player,             *)
(* player-collectibles.  An enemy killed in step 1 or 2 is out of the      *)
(* population before step 3 runs, so it deals no collision damage, and no  *)
(* enemy is counted in enemies_killed or scored more than once.            *)
(***************************************************************************)
C12_StepOrder ==
    [][/\ (last'.op = "projectile_enemy" => last.op = "init")
       /\ (last'.op = "missile_enemy" => last.op = "projectile_enemy")
       /\ (last'.op = "enemy_player" => last.op = "missile_enemy")
       /\ (last'.op = "enemy_projectile_player" => last.op = "enemy_player")
       /\ (last'.op = "check_collisions"
              => last.op = "enemy_projectile_player")
       \* steps 1 and 2: each enemy killed was in the population, is out
       \* of it afterwards, and is counted and scored once
       /\ (last'.op \in {"projectile_enemy", "missile_enemy"} =>
              LET new == SubSeq(killed', Len(killed) + 1, Len(killed'))
                  gone(e) == \A i \in 1..Len(enemies') : enemies'[i] # e
                  factor == IF last'.op = "missile_enemy" THEN 2 ELSE 1
              IN  /\ \A k \in 1..Len(new) :
                        /\ \E i \in 1..Len(enemies) : enemies[i] = new[k]
                        /\ gone(new[k])
                        /\ \A j \in 1..Len(killed') :
                              killed'[j] = new[k] => j = Len(killed) + k
                  /\ stats'.enemies_killed =
                        stats.enemies_killed + Len(new)
                  /\ player'.score = player.score +
                        factor * SumValues(new, 1..Len(new)))
       \* step 3 sees the survivors only
       /\ (last'.op = "enemy_player" =>
              /\ \A i \in 1..Len(enemies), j \in 1..Len(killed) :
                    enemies[i] # killed[j]
              /\ overlap' \subseteq 1..Len(enemies)
              /\ Len(enemies) + Len(killed) = Len(pass_enemies)
              /\ (overlap' = {} =>
                     /\ player'.health = player.health
                     /\ player'.shield = player.shield
                     /\ player'.lives = player.lives))]_vars

\* a projectile killed the heavy enemy and a missile the basic one: step 3
\* found no enemy left and the player is untouched
C12_Witness ==
    /\ last.op = "enemy_player"
    /\ pass_enemies = <<Enemy("heavy", 48), Enemy("basic", 12)>>
    /\ pass_collectibles = <<>>
    /\ killed = pass_enemies
    /\ enemies = <<>>
    /\ stats.enemies_killed = 2
    /\ player = [Player_init EXCEPT !.score = 72]

(***************************************************************************)
(* C13: in the enemy-player step, when one or more enemies overlap the     *)
(* player, take_damage(10) is applied exactly once, however many enemies   *)
(* overlap; when none overlaps, the player's health, shield and lives are  *)
(* unchanged.                                                              *)
(***************************************************************************)
C13_EnemyPlayerStep ==
    [][last'.op = "enemy_player" =>
         LET absorbed == IF player.shield >= 10 THEN 10 ELSE player.shield
             raw == player.health - (10 - absorbed)
         IN  /\ (overlap' # {} =>
                    /\ player'.shield = player.shield - absorbed
                    /\ (raw > 0 =>
                           /\ player'.health = raw
                           /\ player'.lives = player.lives)
                    /\ (raw <= 0 =>
                           /\ player'.lives = player.lives - 1
                           /\ player'.health \in {0, player.max_health}))
             /\ (overlap' = {} =>
                    /\ player'.health = player.health
                    /\ player'.shield = player.shield
                    /\ player'.lives = player.lives)]_vars

\* two enemies overlapped the player at once: 10 of health is lost
C13_Witness ==
    /\ last.op = "enemy_player"
    /\ overlap = {1, 2}
    /\ killed = <<>>
    /\ Len(pass_enemies) = 2
    /\ enemies = <<>>
    /\ player.health = 90
    /\ player.lives = 3

(***************************************************************************)
(* C14: in the enemy-projectile step every enemy projectile overlapping    *)
(* the player is removed and take_damage(5) is applied once for each of    *)
(* them; whether the lives are exhausted is looked at only after all of    *)
(* these damage applications.                                              *)
(***************************************************************************)
C14_EnemyProjectileStep ==
    [][last'.op = "enemy_projectile_player" =>
         LET n == Cardinality(overlap')
             after[k \in 0..n] ==
                 IF k = 0 THEN player ELSE Player_take_damage(after[k - 1], 5)
         IN  /\ overlap' \subseteq 1..Len(enemy_projectiles)
             /\ enemy_projectiles' = Without(enemy_projectiles, overlap')
             /\ Len(enemy_projectiles') = Len(enemy_projectiles) - n
             /\ player' = after[n]
             /\ last'.ret = (n > 0 /\ after[n].lives <= 0)]_vars

\* the player, already out of lives after the enemy-player step, is hit
\* by two projectiles and both are applied
C14_Witness ==
    /\ last.op = "enemy_projectile_player"
    /\ overlap = {1, 2}
    /\ enemy_projectiles = <<>>
    /\ player.health = 0
    /\ player.lives = -2
    /\ last.ret

(***************************************************************************)
(* Player.take_damage called on its own, on players of every health,       *)
(* shield and number of lives, and on with the player it leaves.           *)
(***************************************************************************)
MaxOverkill == 1    \* take_damage is followed down to this many lives below 0

DamagePlayers ==
    {[Player_init EXCEPT !.health = h, !.shield = sh,
                         !.max_shield = IF sh > 0 THEN 50 ELSE 0,
                         !.lives = l] :
        h \in {100, 8, 3}, sh \in {0, 5, 20}, l \in 1..3}

DamageAmounts == {5, 8, 10}

\* a take_damage call, the amount it was given and what it returned
Damaged(amount, ret) ==
    [op |-> "take_damage", dt |-> 0, ret |-> ret, amount |-> amount]

InitDamage ==
    /\ waves = <<>>
    /\ wave_index = 0
    /\ wave_timer = 0
    /\ formation_timers = EmptyTimers
    /\ active_formations = <<>>
    /\ enemies = <<>>
    /\ enemy_projectiles = <<>>
    /\ pc = "idle"
    /\ frame_dt = 0
    /\ elapsed = 0
    /\ ticks_only = FALSE
    /\ spawned = <<>>
    /\ n_spawned = 0
    /\ screen_height = GameHeight
    /\ save_file = None
    /\ formation = NoFormation
    /\ last = NoCall
    /\ LevelManagerInit
    /\ player_projectiles = <<>>
    /\ player_missiles = <<>>
    /\ collectibles = <<>>
    /\ player \in DamagePlayers
    /\ stats = Stats_init
    /\ total_stars_collected = 0
    /\ player_killed = FALSE
    /\ overlap = {}
    /\ pass_enemies = <<>>
    /\ pass_collectibles = <<>>
    /\ killed = <<>>
    /\ detached_stats = None
    /\ playing_level = 1
    /\ base_score = 0
    /\ playing_stars = 0

TakeDamage ==
    /\ player.lives > -MaxOverkill
    /\ \E amount \in DamageAmounts :
          /\ player' = Player_take_damage(player, amount)
          /\ last' = Damaged(amount, Player_take_damage_ret(player, amount))
    /\ UNCHANGED <<enemies, enemy_projectiles, pc, player_projectiles,
                   player_missiles, collectibles, stats,
                   total_stars_collected, player_killed, overlap,
                   pass_enemies,
                   pass_collectibles, killed, detached_stats, playingVars,
                   combatRest>>

NextDamage == TakeDamage

SpecDamage == InitDamage /\ [][NextDamage]_vars

(***************************************************************************)
(* C15: take_damage(a) drains the shield before the health: with          *)
(* shield >= a only the shield drops, by a, and the health is unchanged;   *)
(* with 0 < shield < a the shield becomes 0 and the health drops by        *)
(* a - shield; with shield 0 the health drops by a.  Shield 5, health 100  *)
(* and a = 8 give shield 0 and health 97.  (A health brought to 0 or       *)
(* below is then replaced as take_damage's loss of a life has it.)         *)
(***************************************************************************)
C15_ShieldBeforeHealth ==
    [][last'.op = "take_damage" =>
         LET a == last'.amount
             drop(h) == IF player.health - h > 0
                        THEN player'.health = player.health - h
                        ELSE player'.health \in {0, player.max_health}
         IN  /\ (player.shield >= a =>
                    /\ player'.shield = player.shield - a
                    /\ player'.health = player.health
                    /\ player'.lives = player.lives)
             /\ (0 < player.shield /\ player.shield < a =>
                    /\ player'.shield = 0
                    /\ drop(a - player.shield))
             /\ (player.shield = 0 =>
                    /\ player'.shield = 0
                    /\ drop(a))
             /\ (player.shield = 5 /\ player.health = 100 /\ a = 8 =>
                    /\ player'.shield = 0
                    /\ player'.health = 97)]_vars

\* shield 5, health 100, 8 damage: shield 0, health 97
C15_Witness ==
    /\ last.op = "take_damage"
    /\ last.amount = 8
    /\ last.ret
    /\ player.shield = 0
    /\ player.max_shield = 50
    /\ player.health = 97
    /\ player.lives = 3

(***************************************************************************)
(* C16: after every take_damage call health >= 0; the lives decrease, by   *)
(* exactly 1, in a take_damage call if and only if that call's damage      *)
(* brought the health from a positive value down to 0 or below; when lives *)
(* remain afterwards the health is restored to max_health.                 *)
(***************************************************************************)
C16_LifeLostWithHealth ==
    [][last'.op = "take_damage" =>
         LET a == last'.amount
             absorbed == IF player.shield >= a THEN a ELSE player.shield
             raw == player.health - (a - absorbed)
             lost == player.health > 0 /\ raw <= 0
         IN  /\ player'.health >= 0
             /\ (lost => player'.lives = player.lives - 1)
             /\ (~lost => player'.lives = player.lives)
             /\ (lost /\ player'.lives > 0
                    => player'.health = player.max_health)]_vars

\* a player whose last life is gone is damaged again: the health, 0 before
\* the call, is 0 after it and one more life is taken
C16_Witness ==
    /\ last.op = "take_damage"
    /\ last.amount = 5
    /\ player.health = 0
    /\ player.shield = 0
    /\ player.lives = -1

(***************************************************************************)
(* C17: check_collisions returns True exactly when, in the enemy-player    *)
(* step or in the enemy-projectile step, a collision occurred and the      *)
(* lives were <= 0 after that step's damage (lives 1 and health brought to *)
(* 0: lives 0, True).  A True from one of these steps does not keep the    *)
(* later steps, the collectible step among them, from running.             *)
(***************************************************************************)
C17_PlayerKilled ==
    [][/\ (last'.op = "projectile_enemy" => ~player_killed')
       /\ (last'.op = "missile_enemy" => ~player_killed')
       /\ (last'.op = "enemy_player" =>
              /\ last'.ret = (overlap' # {} /\ player'.lives <= 0)
              /\ player_killed' = last'.ret)
       /\ (last'.op = "enemy_projectile_player" =>
              /\ last'.ret = (overlap' # {} /\ player'.lives <= 0)
              /\ player_killed' = (player_killed \/ last'.ret)
              \* the step ran whatever the step before returned
              /\ Len(enemy_projectiles') =
                    Len(enemy_projectiles) - Cardinality(overlap'))
       /\ (last'.op = "check_collisions" =>
              /\ last'.ret = player_killed
              /\ Len(collectibles') =
                    Len(collectibles) - Cardinality(overlap')
              /\ (player.lives = 1 /\ player'.lives = 0 => last'.ret))
       /\ (player.lives = 1 /\ player'.lives = 0 /\ player'.health = 0
              => player_killed')]_vars

\* the player lost its last life to an enemy, no enemy projectile touched
\* it, and the star was still collected: the pass returns True
C17_Witness ==
    /\ last.op = "check_collisions"
    /\ last.ret
    /\ player.lives = 0
    /\ player.health = 0
    /\ player.score = 50
    /\ total_stars_collected = 10
    /\ Len(enemy_projectiles) = 2
    /\ collectibles = <<>>

(***************************************************************************)
(* C18: in the collectible step every collectible overlapping the player   *)
(* is removed, whatever its kind and whatever the player's state; a star   *)
(* adds its value to total_stars_collected and to the score, a health pack *)
(* sets health to min(max_health, health + value), a shield pack sets      *)
(* shield to min(max_shield, shield + value); health <= max_health and     *)
(* shield <= max_shield are preserved.                                     *)
(***************************************************************************)
C18_CollectibleStep ==
    [][last'.op = "check_collisions" =>
         LET of(kind) == {i \in overlap' : collectibles[i].kind = kind}
             stars == SumValues(collectibles, of("star"))
             health == SumValues(collectibles, of("health"))
             shield == SumValues(collectibles, of("shield"))
         IN  /\ overlap' \subseteq 1..Len(collectibles)
             /\ collectibles' = Without(collectibles, overlap')
             /\ total_stars_collected' = total_stars_collected + stars
             /\ player'.score = player.score + stars
             /\ stats'.stars_collected =
                   stats.stars_collected + Cardinality(of("star"))
             /\ player'.health =
                   IF of("health") = {} THEN player.health
                   ELSE Min(player.max_health, player.health + health)
             /\ player'.shield =
                   IF of("shield") = {} THEN player.shield
                   ELSE Min(player.max_shield, player.shield + shield)
             /\ player'.lives = player.lives
             /\ (player.health <= player.max_health
                    => player'.health <= player'.max_health)
             /\ (player.shield <= player.max_shield
                    => player'.shield <= player'.max_shield)]_vars

\* a health pack and a shield pack picked up at health 5 and shield 5 of 50
C18_Witness ==
    /\ last.op = "check_collisions"
    /\ overlap = {1, 2}
    /\ collectibles = <<>>
    /\ player.health = 30
    /\ player.shield = 50
    /\ player.max_shield = 50
    /\ total_stars_collected = 0

(***************************************************************************)
(* PlayingState (engine/states/playing_state.py) with Game.start_new_game  *)
(* and the shop's continue: the statistics, the level score and the state  *)
(* changes.  The EnemyManager's spawning is left out here: an enemy or an  *)
(* enemy projectile may appear in any frame.                               *)
(***************************************************************************)
\* the rates computed whatever the denominators are
PlayingState_update_rates_unguarded(st) ==
    [st EXCEPT
       !.collection_rate =
           Percent(st.stars_collected, st.stars_collected + st.stars_missed),
       !.kill_rate =
           Percent(st.enemies_killed, st.enemies_killed + st.enemies_escaped),
       !.accuracy = Percent(st.shots_hit, st.shots_fired)]

\* update(dt), "Update collection rate and kill rate statistics"
PlayingState_update_rates(st) ==
    LET total_stars == st.stars_collected + st.stars_missed
        total_enemies == st.enemies_killed + st.enemies_escaped
        a == IF total_stars > 0
             THEN [st EXCEPT !.collection_rate =
                                Percent(st.stars_collected, total_stars)]
             ELSE st
        b == IF total_enemies > 0
             THEN [a EXCEPT !.kill_rate =
                               Percent(st.enemies_killed, total_enemies)]
             ELSE a
    IN  IF st.shots_fired > 0
        THEN [b EXCEPT !.accuracy = Percent(st.shots_hit, st.shots_fired)]
        ELSE b

\* _calculate_level_score(): the player's score with the performance bonus
\* kill_rate * 0.5 + collection_rate * 0.3 + accuracy * 0.2 per cent of
\* base_score, truncated
PlayingState_calculate_level_score(st, base) ==
    LET kr == st.kill_rate
        cr == st.collection_rate
        ac == st.accuracy
        num == 5 * kr[1] * cr[2] * ac[2] + 3 * cr[1] * kr[2] * ac[2]
                 + 2 * ac[1] * kr[2] * cr[2]
        den == 10 * kr[2] * cr[2] * ac[2]
    IN  base + (base * num) \div (den * 100)

\* enter(): the statistics, whether PlayingState.stats is a new dictionary,
\* and the player; has_player says that self.player exists.  The groups
\* are emptied by the caller.
PlayingState_enter(st, p, has_player, level) ==
    LET player_attributes == has_player
        reset == ~player_attributes /\ (p.health <= 0 \/ level = 1)
    IN  [stats |-> IF reset THEN Stats_init ELSE st,
         rebound |-> reset,
         player |-> IF player_attributes THEN p
                    ELSE IF p.health <= 0
                         THEN [p EXCEPT !.health = p.max_health,
                                        !.lives = 3, !.score = 0]
                         ELSE p]

\* Game.start_new_game(): the player with the starting values of the
\* upgrades (hull 50, shield 0)
Game_start_new_game(p) ==
    [p EXCEPT !.max_health = 50, !.health = 50, !.lives = 3, !.score = 0,
              !.max_shield = 0, !.shield = 0]

MaxSprites == 1     \* a frame adds to a group that holds fewer than this

FrameDts == {300}

PlayingPlayers ==
    {Player_init,
     [Player_init EXCEPT !.health = 10, !.lives = 1, !.score = 40]}

InitPlaying ==
    /\ waves = <<>>
    /\ wave_index = 0
    /\ wave_timer = 0
    /\ formation_timers = EmptyTimers
    /\ active_formations = <<>>
    /\ enemies = <<>>
    /\ enemy_projectiles = <<>>
    /\ pc = "playing"
    /\ frame_dt = 0
    /\ elapsed = 0
    /\ ticks_only = FALSE
    /\ spawned = <<>>
    /\ n_spawned = 0
    /\ screen_height = GameHeight
    /\ save_file = None
    /\ formation = NoFormation
    /\ last = NoCall
    /\ LevelManagerInit
    /\ player_projectiles = <<>>
    /\ player_missiles = <<>>
    /\ collectibles = <<>>
    /\ player \in PlayingPlayers
    /\ stats = Stats_init
    /\ total_stars_collected = 0
    /\ player_killed = FALSE
    /\ overlap = {}
    /\ pass_enemies = <<>>
    /\ pass_collectibles = <<>>
    /\ killed = <<>>
    /\ detached_stats = None
    /\ playing_level = 1
    /\ base_score = 0
    /\ playing_stars = 0

playingRest == <<waves, wave_index, wave_timer, formation_timers,
                 active_formations, frame_dt, elapsed, ticks_only, spawned,
                 n_spawned, formation, screen_height, current_level, level_duration,
                 base_waves, scaled_waves, scaled_level, scale_calls>>

\* Game._save_game_data(): the file written holds the stars of PlayingState
Game_save_game_data(stars) == [stars |-> stars]

\* handle_event, SPACE pressed: a shot that the statistics do not count
HandleShoot ==
    /\ pc = "playing"
    /\ Len(player_projectiles) < MaxSprites
    /\ player_projectiles' = Append(player_projectiles, PlayerProjectile)
    /\ last' = Call("handle_event", 0, FALSE)
    /\ UNCHANGED <<enemies, enemy_projectiles, pc, player_missiles,
                   collectibles, player, stats, total_stars_collected,
                   player_killed, overlap, pass_enemies,
                   pass_collectibles, killed,
                   detached_stats, playingVars, level_time, level_complete,
                   playingRest, save_file>>

\* update(dt) up to the collision pass: the level timer, the shot of a held
\* SPACE key, the sprites that arrive, the stars and enemies that left the
\* screen, the rates and base_score
PlayingUpdateBy(dts) ==
    /\ pc = "playing"
    /\ \E dt \in dts :
          LET r == LevelManager_update(level_time, level_duration,
                                       level_complete, dt)
          IN  /\ level_time' = r.level_time
              /\ level_complete' = r.level_complete
              /\ last' = Call("playing_update", dt, r.ret)
              /\ IF r.ret /\ r.level_complete
                 THEN /\ player' =
                            [player EXCEPT !.score =
                               PlayingState_calculate_level_score(stats,
                                                                  base_score)]
                      /\ pc' = "summary"
                      /\ UNCHANGED <<enemies, enemy_projectiles,
                                     player_projectiles, collectibles, stats,
                                     base_score, pass_enemies,
                                     pass_collectibles>>
                 ELSE /\ \E held \in BOOLEAN, arrived \in BOOLEAN,
                            shot \in BOOLEAN,
                            missed \in SUBSET (1..Len(collectibles)),
                            escaped \in 0..Len(enemies) :
                          LET fired == held /\ Len(player_projectiles)
                                                  < MaxSprites
                              lost == {i \in missed :
                                          collectibles[i].kind = "star"}
                              counted ==
                                  [stats EXCEPT
                                     !.shots_fired =
                                         @ + (IF fired THEN 1 ELSE 0),
                                     !.stars_missed = @ + Cardinality(lost),
                                     !.enemies_escaped = @ + escaped]
                          IN  /\ player_projectiles' =
                                    IF fired
                                    THEN Append(player_projectiles,
                                                PlayerProjectile)
                                    ELSE player_projectiles
                              /\ enemies' =
                                    IF arrived /\ Len(enemies) < MaxSprites
                                    THEN Append(enemies, Enemy("basic", 10))
                                    ELSE enemies
                              /\ enemy_projectiles' =
                                    IF shot /\ Len(enemy_projectiles)
                                                 < MaxSprites
                                    THEN Append(enemy_projectiles,
                                                EnemyProjectile)
                                    ELSE enemy_projectiles
                              /\ collectibles' = Without(collectibles, missed)
                              /\ stats' = PlayingState_update_rates(counted)
                      /\ pass_enemies' = enemies'
                      /\ pass_collectibles' = collectibles'
                      /\ base_score' = player.score
                      /\ player' = player
                      /\ pc' = "projectile_enemy"
    /\ killed' = <<>>
    /\ UNCHANGED <<player_missiles, total_stars_collected, player_killed,
                   overlap, detached_stats, playing_level, playing_stars,
                   playingRest, save_file>>

\* update(dt) of a frame of the length played in SpecPlaying
PlayingUpdate == PlayingUpdateBy(FrameDts)

\* the end of update(dt), after check_collisions: the stars are copied and
\* a killed player sends the game to the menu
FrameEnd ==
    /\ pc = "idle"
    /\ playing_stars' = total_stars_collected
    /\ pc' = IF player_killed THEN "menu" ELSE "playing"
    /\ last' = Call("frame_end", 0, player_killed)
    /\ UNCHANGED <<enemies, enemy_projectiles, player_projectiles,
                   player_missiles, collectibles, player, stats,
                   total_stars_collected, player_killed, overlap,
                   pass_enemies,
                   pass_collectibles, killed, detached_stats, playing_level,
                   base_score, level_time, level_complete, playingRest, save_file>>

\* the level summary is left, by a key or after summary_duration, and
\* LevelManager._save_game_state() saves the game
SummaryDone ==
    /\ pc = "summary"
    /\ pc' = "shop"
    /\ save_file' = Game_save_game_data(playing_stars)
    /\ last' = Call("summary", 0, FALSE)
    /\ UNCHANGED <<enemies, enemy_projectiles, player_projectiles,
                   player_missiles, collectibles, player, stats,
                   total_stars_collected, player_killed, overlap,
                   pass_enemies,
                   pass_collectibles, killed, detached_stats, playingVars,
                   level_time, level_complete, playingRest>>

\* ShopState._continue_to_next_level(): current_level grows and
\* _scale_difficulty reads play_state.waves, which PlayingState does not
\* have: the AttributeError ends the game loop, whose finally clause saves
ShopContinue ==
    /\ pc = "shop"
    /\ playing_level' = playing_level + 1
    /\ pc' = "crashed"
    /\ save_file' = Game_save_game_data(playing_stars)
    /\ last' = Call("continue_to_next_level", 0, FALSE)
    /\ UNCHANGED <<enemies, enemy_projectiles, player_projectiles,
                   player_missiles, collectibles, player, stats,
                   total_stars_collected, player_killed, overlap,
                   pass_enemies,
                   pass_collectibles, killed, detached_stats, base_score,
                   playing_stars, level_time, level_complete, playingRest>>

\* the menu's "new game": Game.start_new_game(), which also deletes the
\* save file, and, through change_state("playing"), PlayingState.enter()
MenuNewGame ==
    /\ pc = "menu"
    /\ LET r == PlayingState_enter(stats, Game_start_new_game(player), TRUE,
                                   playing_level)
       IN  /\ player' = r.player
           /\ stats' = r.stats
           /\ detached_stats' =
                 IF r.rebound /\ detached_stats = None THEN stats
                 ELSE detached_stats
    /\ playing_stars' = 0
    /\ save_file' = None
    /\ enemies' = <<>>
    /\ enemy_projectiles' = <<>>
    /\ player_projectiles' = <<>>
    /\ player_missiles' = <<>>
    /\ collectibles' = <<>>
    /\ pc' = "playing"
    /\ last' = Call("start_new_game", 0, FALSE)
    /\ UNCHANGED <<total_stars_collected, player_killed, overlap,
                   pass_enemies,
                   pass_collectibles, killed, playing_level, base_score,
                   level_time, level_complete, playingRest>>

NextPlaying ==
    \/ HandleShoot
    \/ (level_time < MaxLevelTime /\ PlayingUpdate)
    \/ CheckProjectileEnemy
    \/ CheckMissileEnemy
    \/ CheckEnemyPlayer
    \/ CheckEnemyProjectilePlayer
    \/ CheckPlayerCollectible
    \/ FrameEnd
    \/ SummaryDone
    \/ ShopContinue
    \/ MenuNewGame

SpecPlaying == InitPlaying /\ [][NextPlaying]_vars

(***************************************************************************)
(* C19: in every reachable state each derived percentage is 0 whenever its *)
(* denominator is 0: accuracy when shots_fired is 0, collection_rate when  *)
(* stars_collected + stars_missed is 0, kill_rate when enemies_killed +    *)
(* enemies_escaped is 0; and no update divides by zero.                    *)
(***************************************************************************)
C19_RatesZero ==
    /\ (stats.shots_fired = 0 => stats.accuracy[1] = 0)
    /\ (stats.stars_collected + stats.stars_missed = 0
          => stats.collection_rate[1] = 0)
    /\ (stats.enemies_killed + stats.enemies_escaped = 0
          => stats.kill_rate[1] = 0)
    /\ stats.accuracy[2] # 0
    /\ stats.collection_rate[2] # 0
    /\ stats.kill_rate[2] # 0

\* a shot fired on a key press hit an enemy: shots_hit is 1 with shots_fired
\* 0, and the next frame computed the kill rate and left the accuracy at 0
C19_Witness ==
    /\ last.op = "playing_update"
    /\ pc = "projectile_enemy"
    /\ stats.shots_fired = 0
    /\ stats.shots_hit = 1
    /\ stats.enemies_killed = 1
    /\ stats.kill_rate = <<100, 1>>
    /\ stats.accuracy = <<0, 1>>
    /\ stats.stars_collected + stats.stars_missed = 0

(***************************************************************************)
(* C20: the counters of the statistics (enemies_killed, enemies_escaped,   *)
(* stars_collected, stars_missed, shots_fired, shots_hit) are all reset to *)
(* 0 whenever a new game starts, are never reset when the run continues to *)
(* its next level, and after a reset the collision pass keeps updating the *)
(* ledger that the playing state reads and displays.                       *)
(***************************************************************************)
C20_ResetOnNewGame ==
    [][/\ (last'.op = "start_new_game" =>
              /\ stats'.enemies_killed = 0
              /\ stats'.enemies_escaped = 0
              /\ stats'.stars_collected = 0
              /\ stats'.stars_missed = 0
              /\ stats'.shots_fired = 0
              /\ stats'.shots_hit = 0)
       /\ (last'.op = "continue_to_next_level" => stats' = stats)
       /\ detached_stats' = None]_vars

\* a new game has started and the kill of the game before is still counted
C20_Witness ==
    /\ last.op = "start_new_game"
    /\ pc = "playing"
    /\ player.lives = 3
    /\ player.health = 50
    /\ player.score = 0
    /\ stats.enemies_killed = 1
    /\ detached_stats = None

(***************************************************************************)
(* PlayingState.update(dt) with the EnemyManager in place: the frames of   *)
(* the scenario wave, each followed by its collision pass                  *)
(* (playing_state.py 331-412).                                             *)
(***************************************************************************)
TickTime == 35      \* no frame begins once this much update time has passed

TickDts == {5, 10}

\* the state PlayingState.enter() leaves: the waves installed, the groups
\* empty, the LevelManager's timer at 0 or where an earlier game left it
InitTick ==
    /\ \E r \in EnemyManager_set_waves(ScenarioWaves) :
          /\ waves = r.wm.waves
          /\ wave_index = r.wm.wave_index
          /\ wave_timer = r.wm.wave_timer
          /\ formation_timers = r.formation_timers
          /\ active_formations = r.active_formations
    /\ enemies = <<>>
    /\ enemy_projectiles = <<>>
    /\ pc = "playing"
    /\ frame_dt = 0
    /\ elapsed = 0
    /\ ticks_only = TRUE
    /\ spawned = <<>>
    /\ n_spawned = 0
    /\ screen_height = GameHeight
    /\ save_file = None
    /\ formation = NoFormation
    /\ last = Call("set_waves", 0, FALSE)
    /\ current_level = 1
    /\ level_time \in {0, 870}
    /\ level_duration = 90
    /\ level_complete = FALSE
    /\ base_waves = BaseWaves
    /\ scaled_waves = <<>>
    /\ scaled_level = 0
    /\ scale_calls = 0
    /\ CombatInit

\* update(dt) up to the collision pass: the level timer, the wave timer, the
\* shot of a held SPACE key, EnemyManager.update with its spawns, the
\* collectibles that left the screen, the rates and base_score
Tick ==
    /\ pc = "playing"
    /\ \E dt \in TickDts :
          LET lm == LevelManager_update(level_time, level_duration,
                                        level_complete, dt)
              w == EnemyManager_update_wave_timer(
                       waves, wave_index, wave_timer, formation_timers,
                       active_formations, dt)
          IN  /\ level_time' = lm.level_time
              /\ level_complete' = lm.level_complete
              /\ frame_dt' = dt
              /\ elapsed' = elapsed + dt
              /\ last' = Call("playing_update", dt, lm.ret)
              /\ IF lm.ret /\ lm.level_complete
                 THEN /\ player' =
                            [player EXCEPT !.score =
                               PlayingState_calculate_level_score(stats,
                                                                  base_score)]
                      /\ pc' = "summary"
                      /\ UNCHANGED <<wave_index, wave_timer, formation_timers,
                                     active_formations, enemies,
                                     enemy_projectiles, player_projectiles,
                                     collectibles, stats, base_score,
                                     pass_enemies, pass_collectibles,
                                     spawned, n_spawned>>
                 ELSE /\ wave_index' = w.wave_index
                      /\ wave_timer' = w.wave_timer
                      /\ \E held \in BOOLEAN,
                            missed \in SUBSET (1..Len(collectibles)),
                            r \in EnemyManager_update(
                                      waves, w.wave_index, w.formation_timers,
                                      w.active_formations, enemies,
                                      enemy_projectiles, dt, elapsed + dt) :
                          LET fired == held /\ Len(player_projectiles)
                                                  < MaxSprites
                              lost == {i \in missed :
                                          collectibles[i].kind = "star"}
                              counted ==
                                  [stats EXCEPT
                                     !.shots_fired =
                                         @ + (IF fired THEN 1 ELSE 0),
                                     !.stars_missed = @ + Cardinality(lost)]
                          IN  /\ player_projectiles' =
                                    IF fired
                                    THEN Append(player_projectiles,
                                                PlayerProjectile)
                                    ELSE player_projectiles
                              /\ formation_timers' = r.formation_timers
                              /\ active_formations' = r.active_formations
                              /\ enemies' = r.enemies
                              /\ enemy_projectiles' = r.enemy_projectiles
                              /\ spawned' = r.spawns
                              /\ n_spawned' = n_spawned + Len(r.spawns)
                              /\ collectibles' = Without(collectibles, missed)
                              /\ stats' = PlayingState_update_rates(counted)
                      /\ pass_enemies' = enemies'
                      /\ pass_collectibles' = collectibles'
                      /\ base_score' = player.score
                      /\ player' = player
                      /\ pc' = "projectile_enemy"
    /\ killed' = <<>>
    /\ UNCHANGED <<waves, ticks_only, formation, screen_height, save_file, current_level,
                   level_duration, base_waves, scaled_waves, scaled_level,
                   scale_calls, player_missiles, total_stars_collected,
                   player_killed, overlap, detached_stats, playing_level,
                   playing_stars>>

NextTick ==
    \/ (elapsed < TickTime /\ Tick)
    \/ CheckProjectileEnemy
    \/ CheckMissileEnemy
    \/ CheckEnemyPlayer
    \/ CheckEnemyProjectilePlayer
    \/ CheckPlayerCollectible
    \/ FrameEnd
    \/ SummaryDone

SpecTick == InitTick /\ [][NextTick]_vars

(***************************************************************************)
(* C21: within one PlayingState.update tick the spawn processing runs      *)
(* before the collision pass.  As stated: an entity created during the     *)
(* tick (an enemy spawned by a formation, a reward collectible spawned by  *)
(* a kill) is not a member of any group the same tick's collision pass     *)
(* examines; it first takes part in collisions on the next tick.           *)
(***************************************************************************)
C21_NextTickOnly ==
    [][/\ (last'.op = "playing_update" /\ pc' = "projectile_enemy"
             => Len(pass_enemies') + Len(spawned') <= Len(enemies'))
       /\ (last'.op = "check_collisions"
             => \A i \in overlap' : i <= Len(pass_collectibles))]_vars

\* C21 as the code has it: the enemies spawned in a tick are the last
\* members of the group its collision pass begins with, and the
\* collectibles steps 1 and 2 spawn are members of the group step 5
\* examines, after those the pass began with.
C21_SameTick ==
    [][/\ (last'.op = "playing_update" /\ pc' = "projectile_enemy"
             => /\ pass_enemies' = enemies'
                /\ Len(spawned') <= Len(enemies')
                /\ \A i \in 1..Len(spawned') :
                      enemies'[Len(enemies') - Len(spawned') + i].cls
                         = spawned'[i].enemy_type)
       /\ (pc = "player_collectible" /\ last'.op = "check_collisions"
             => /\ Len(pass_collectibles) <= Len(collectibles)
                /\ SubSeq(collectibles, 1, Len(pass_collectibles))
                      = pass_collectibles
                /\ overlap' \subseteq 1..Len(collectibles)
                /\ collectibles' = Without(collectibles, overlap'))]_vars

\* an enemy spawned in this tick was in the group of the pass, and the
\* player has picked up a collectible that a kill of this pass spawned
C21_Witness ==
    /\ last.op = "check_collisions"
    /\ spawned # <<>>
    /\ Len(pass_enemies) >= Len(spawned)
    /\ killed # <<>>
    /\ \E i \in overlap : i > Len(pass_collectibles)

(***************************************************************************)
(* set_waves handed malformed wave lists (an interval of 0, a negative     *)
(* interval, a wave without enemies), then driven by frames.               *)
(***************************************************************************)
MalformedLists ==
    {<<FormationWave(6, <<FormationDef("line", "basic", 1, 0, 0)>>)>>,
     <<LegacyWave(6, <<EnemyDef("shooter", 1, -10)>>)>>,
     <<LegacyWave(6, <<>>)>>,
     <<FormationWave(6, <<>>)>>}

InitMalformed ==
    /\ \E ws \in MalformedLists : \E r \in EnemyManager_set_waves(ws) :
          /\ waves = r.wm.waves
          /\ wave_index = r.wm.wave_index
          /\ wave_timer = r.wm.wave_timer
          /\ formation_timers = r.formation_timers
          /\ active_formations = r.active_formations
    /\ enemies = <<>>
    /\ enemy_projectiles = <<>>
    /\ pc = "idle"
    /\ frame_dt = 0
    /\ elapsed = 0
    /\ ticks_only = TRUE
    /\ spawned = <<>>
    /\ n_spawned = 0
    /\ screen_height = GameHeight
    /\ save_file = None
    /\ formation = NoFormation
    /\ last = Call("set_waves", 0, FALSE)
    /\ LevelManagerInit
    /\ CombatInit

NextMalformed ==
    \/ (wave_timer < MaxTime /\ Len(enemies) < MaxEnemies /\ UpdateWaveTimer)
    \/ Update

SpecMalformed == InitMalformed /\ [][NextMalformed]_vars

(***************************************************************************)
(* C22: installing a wave list with a malformed spec (an interval <= 0, a  *)
(* wave with an empty enemy list) fails at set_waves time, so no reachable *)
(* state has an active wave whose spec starts a new formation on every     *)
(* tick, or an active wave that can never spawn anything.                  *)
(***************************************************************************)
C22_NoMalformedWave ==
    LET current_wave == WaveManager_get_current_wave(waves, wave_index)
    IN  current_wave # None =>
           /\ current_wave.formations # <<>>
           /\ \A k \in 1..Len(current_wave.formations) :
                 current_wave.formations[k].interval.num > 0

\* the installed wave has an interval of 0 and two updates in a row have
\* each started a formation of it
C22_Witness ==
    /\ last.op = "update"
    /\ wave_index = 0
    /\ waves[1].formations # <<>>
    /\ waves[1].formations[1].interval.num = 0
    /\ Len(active_formations) = 2
    /\ elapsed = 2

(***************************************************************************)
(* C23: for every LINE formation with count N >= 1 and spacing S >= 1, the *)
(* positions of the indices 0..N-1 are symmetric about the center          *)
(* (screen_width // 2 + x_offset) and adjacent positions differ by exactly *)
(* S.                                                                      *)
(***************************************************************************)
C23_LineSymmetric ==
    formation.formation_type = "line" =>
       LET center == formation.screen_width \div 2 + formation.x_offset
           n == formation.count
       IN  \A i \in 0..(n - 1) :
           \A x \in FormationPattern_get_position_for_index(formation, i) :
              /\ \A y \in FormationPattern_get_position_for_index(
                              formation, n - 1 - i) :
                    x + y = 2 * center
              /\ i > 0 =>
                    \A z \in FormationPattern_get_position_for_index(
                                 formation, i - 1) :
                       x - z = formation.spacing

\* C23 as the code has it: adjacent positions differ by exactly S, and the
\* line is symmetric about the center when (N - 1) * S is even and about
\* half a pixel to its right when (N - 1) * S is odd, total_width // 2
\* being rounded down.
C23_LineSpacing ==
    formation.formation_type = "line" =>
       LET center == formation.screen_width \div 2 + formation.x_offset
           n == formation.count
       IN  \A i \in 0..(n - 1) :
              /\ FormationPattern_get_position_for_index(formation, i) # {}
              /\ \A x \in FormationPattern_get_position_for_index(
                              formation, i) :
                    /\ \A y \in FormationPattern_get_position_for_index(
                                    formation, n - 1 - i) :
                          x + y = (2 * center)
                                     + (((n - 1) * formation.spacing) % 2)
                    /\ i > 0 =>
                          \A z \in FormationPattern_get_position_for_index(
                                       formation, i - 1) :
                             x - z = formation.spacing

\* a line of two with spacing 45 has spawned its second member 23 to the
\* right of the center, the first being 22 to the left
C23_Witness ==
    /\ formation.formation_type = "line"
    /\ formation.count = 2
    /\ formation.spacing = 45
    /\ formation.complete
    /\ last.op = "formation_update"
    /\ Len(spawned) = 1
    /\ spawned[1].index = 1
    /\ spawned[1].x = formation.screen_width \div 2 + formation.x_offset + 23

(***************************************************************************)
(* C24: for every ARC formation with count 1 the position of index 0 is    *)
(* computed without a division by zero.  As stated: it equals the center   *)
(* (screen_width // 2 + x_offset).                                         *)
(***************************************************************************)
C24_ArcOfOneAtCenter ==
    (formation.formation_type = "arc" /\ formation.count = 1) =>
       /\ FormationPattern_get_position_for_index(formation, 0)
             = {formation.screen_width \div 2 + formation.x_offset}
       /\ \A i \in 1..Len(spawned) :
             spawned[i].x = formation.screen_width \div 2 + formation.x_offset

\* C24 as the code has it: the angle is 0, so the position is the right end
\* of the arc, center + int(S / pi); 355/113 stands for pi.
C24_ArcOfOne ==
    (formation.formation_type = "arc" /\ formation.count = 1) =>
       LET center == formation.screen_width \div 2 + formation.x_offset
           xs == FormationPattern_get_position_for_index(formation, 0)
       IN  /\ xs # {}
           /\ \A x \in xs :
                 /\ (x - center) * 355 <= formation.spacing * 113
                 /\ (x - center + 1) * 355 > formation.spacing * 113
           /\ \A i \in 1..Len(spawned) : spawned[i].x \in xs

\* an arc of one with spacing 60 has spawned its only member 19 to the right
\* of the center
C24_Witness ==
    /\ formation.formation_type = "arc"
    /\ formation.count = 1
    /\ formation.spacing = DefaultSpacing
    /\ formation.complete
    /\ last.op = "formation_update"
    /\ Len(spawned) = 1
    /\ spawned[1].x = formation.screen_width \div 2 + formation.x_offset + 19

(***************************************************************************)
(* C25: two calls of set_waves with the same input yield the same          *)
(* synthesized formation specs for every wave: per legacy enemy entry the  *)
(* same archetype, count and interval, and the same layout kind, apart     *)
(* from the fields that are drawn at random (the layout of an archetype    *)
(* without a fixed layout, one of line, v_shape and arc, and x_offset).    *)
(* A call on the list that a call has already processed changes nothing.   *)
(***************************************************************************)
C25_SetWavesTwice ==
    [][(last.op = "set_waves" /\ last'.op = "set_waves") =>
          /\ ProcessWaves(waves') = {waves'}
          /\ (/\ Len(waves) = Len(waves')
              /\ \A i \in 1..Len(waves) :
                    /\ waves[i].duration = waves'[i].duration
                    /\ waves[i].enemies = waves'[i].enemies)
             => \A i \in 1..Len(waves) :
                   waves[i].enemies # <<>> =>
                      /\ Len(waves[i].formations) = Len(waves[i].enemies)
                      /\ Len(waves'[i].formations) = Len(waves[i].enemies)
                      /\ \A k \in 1..Len(waves[i].enemies) :
                            LET d == waves[i].enemies[k]
                                f == waves[i].formations[k]
                                g == waves'[i].formations[k]
                            IN  /\ f.enemy_type = d.type
                                /\ g.enemy_type = d.type
                                /\ f.count = d.count
                                /\ g.count = d.count
                                /\ f.interval = d.interval
                                /\ g.interval = d.interval
                                /\ {f.type, g.type}
                                      \subseteq {"line", "v_shape", "arc"}
                                   \/ (/\ f.type = g.type
                                       /\ d.type \in {"zigzag", "shooter",
                                                      "heavy", "shield",
                                                      "dart"})]_vars

\* set_waves has installed the legacy list: the dart entry as a circle, the
\* basic entry with a layout and an offset drawn at random
C25_Witness ==
    /\ last.op = "set_waves"
    /\ Len(waves) = 2
    /\ waves[1].enemies = <<EnemyDef("basic", 1, 3)>>
    /\ waves[1].formations =
          <<FormationDef("arc", "basic", 1, 3, 150)>>
    /\ waves[2].enemies = <<EnemyDef("dart", 2, 3)>>
    /\ waves[2].formations[1].type = "circle"
    /\ waves[2].formations[1].count = 2

(***************************************************************************)
(* C26: while the level summary is showing, and on the tick in which the   *)
(* level completes, PlayingState.update leaves the wave index, the wave    *)
(* timer, the formation timers, the active formations, every entity group, *)
(* the player's health, shield and lives and every stats counter           *)
(* unchanged; outside that gate the wave timer and the formation timers    *)
(* never decrease except by being reset to 0.  As stated: the level timer  *)
(* too is unchanged on the tick in which the level completes.              *)
(***************************************************************************)
C26_GateFreezesLevelTimer ==
    [][(last'.op = "playing_update" /\ pc' = "summary")
          => level_time' = level_time]_vars

\* C26 as the code has it: the tick in which the level completes advances
\* the level timer by dt (that is what completes the level) and sets the
\* score to the level score; everything else is as stated.
C26_SummaryGate ==
    [][/\ (last'.op = "summary" \/ (last'.op = "playing_update"
                                       /\ pc' = "summary"))
          => /\ UNCHANGED <<wave_index, wave_timer, formation_timers,
                            active_formations, enemies, enemy_projectiles,
                            player_projectiles, player_missiles,
                            collectibles, stats, detached_stats>>
             /\ player'.health = player.health
             /\ player'.shield = player.shield
             /\ player'.lives = player.lives
       /\ last'.op = "summary" => UNCHANGED <<level_time, player>>
       /\ (last'.op = "playing_update" /\ pc' = "summary")
          => /\ level_time' = level_time + last'.dt
             /\ level_complete' /\ ~level_complete
             /\ player'.score =
                   PlayingState_calculate_level_score(stats, base_score)
       /\ (last'.op = "playing_update" /\ pc' = "projectile_enemy")
          => /\ level_time' = level_time + last'.dt
             /\ wave_timer' >= wave_timer \/ wave_timer' = 0
             /\ \A k \in DOMAIN formation_timers :
                   \/ /\ k \in DOMAIN formation_timers'
                      /\ formation_timers'[k] >= formation_timers[k]
                   \/ TimerGet(formation_timers', k) = 0]_vars

\* the level has completed in a tick that left the formation under way and
\* its enemy alone, and the summary has been left for the shop
C26_Witness ==
    /\ last.op = "summary"
    /\ pc = "shop"
    /\ level_complete
    /\ level_time >= level_duration * 10
    /\ active_formations # <<>>
    /\ enemies # <<>>
    /\ wave_timer > 0

(***************************************************************************)
(* C27: every entry into the playing state for a new level or a new game   *)
(* starts with the level time at 0 and the level-complete flag false, so   *)
(* that the run signals COMPLETE exactly once, on the first tick at which  *)
(* the gameplay time since that entry reaches the level duration.          *)
(***************************************************************************)
C27_EntryResetsLevel ==
    [][last'.op = "start_new_game" =>
          /\ level_time' = 0
          /\ ~level_complete']_vars

\* a new game has started 30 s into the level timer of the game before
C27_Witness ==
    /\ last.op = "start_new_game"
    /\ pc = "playing"
    /\ player.lives = 3
    /\ enemies = <<>>
    /\ level_time = 300
    /\ ~level_complete

(***************************************************************************)
(* C28: after EnemyManager.set_waves, whatever the state before the call,  *)
(* the wave index is 0, the wave timer is 0, the formation timers map is   *)
(* empty and no formation is active.                                       *)
(***************************************************************************)
C28_SetWavesResets ==
    [][last'.op = "set_waves" =>
          /\ wave_index' = 0
          /\ wave_timer' = 0
          /\ formation_timers' = EmptyTimers
          /\ active_formations' = <<>>
          /\ WaveManager_get_current_wave(waves', wave_index')
                = IF waves' = <<>> THEN None ELSE waves'[1]]_vars

\* set_waves has been called after frames had run, and the first of the two
\* waves it installed is the current one
C28_Witness ==
    /\ last.op = "set_waves"
    /\ frame_dt > 0
    /\ Len(waves) = 2
    /\ wave_index = 0
    /\ wave_timer = 0
    /\ formation_timers = EmptyTimers
    /\ active_formations = <<>>

(***************************************************************************)
(* C29: the enemy-on-player collision step, when several enemies overlap   *)
(* the player.  As stated: it removes only one enemy per tick and the      *)
(* others stay in the population.                                          *)
(***************************************************************************)
C29_OnlyOneRemoved ==
    [][(last'.op = "enemy_player" /\ overlap' # {})
          => Len(enemies') = Len(enemies) - 1]_vars

\* C29 as the code has it: every enemy that overlaps the player is removed
\* in that step, and the enemies that do not overlap stay, in their order.
C29_AllOverlappingRemoved ==
    [][last'.op = "enemy_player" =>
          /\ overlap' \subseteq 1..Len(enemies)
          /\ Len(enemies') = Len(enemies) - Cardinality(overlap')
          /\ \A i \in (1..Len(enemies)) \ overlap' :
                enemies'[i - Cardinality({j \in overlap' : j < i})]
                   = enemies[i]]_vars

\* two enemies overlapped the player at once: both are gone, and the one
\* take_damage(10) has cost the last life
C29_Witness ==
    /\ last = Call("enemy_player", 0, TRUE)
    /\ overlap = {1, 2}
    /\ killed = <<>>
    /\ pass_enemies = <<Enemy("heavy", 48), Enemy("basic", 12)>>
    /\ enemies = <<>>
    /\ player.lives = 0

(***************************************************************************)
(* C30: at any time during a wave there is at most one active (not yet     *)
(* complete) formation per formation definition of the current wave: a new *)
(* one is never started for a definition while the one before is still     *)
(* spawning.                                                               *)
(***************************************************************************)
C30_OneInstancePerSpec ==
    LET current_wave == WaveManager_get_current_wave(waves, wave_index)
    IN  current_wave # None =>
           \A k \in 1..Len(current_wave.formations) :
              Cardinality(
                 {i \in 1..Len(active_formations) :
                     /\ ~active_formations[i].fp.complete
                     /\ active_formations[i].fp.formation_type
                           = current_wave.formations[k].type
                     /\ active_formations[i].fp.enemy_type
                           = current_wave.formations[k].enemy_type}) <= 1

\* C30 as the code has it: an update starts a formation for a definition
\* exactly when the definition's timer, advanced by dt, has reached its
\* interval, whether or not an earlier formation of the definition is still
\* spawning, so that several of them can be active at once.
C30_StartedWhenDue ==
    [][(last'.op = "update"
          /\ WaveManager_get_current_wave(waves, wave_index) # None) =>
          LET defs == WaveManager_get_current_wave(waves, wave_index).formations
          IN  \A k \in 1..Len(defs) :
                 (\A j \in 1..Len(defs) :
                     FormationKey(defs[j]) = FormationKey(defs[k]) => j = k)
                 =>
                 LET due == (TimerGet(formation_timers, FormationKey(defs[k]))
                                + frame_dt) * defs[k].interval.den
                               >= defs[k].interval.num
                     fresh == {i \in 1..Len(active_formations') :
                                 /\ active_formations'[i].age = 0
                                 /\ active_formations'[i].fp.spawned_count = 0
                                 /\ active_formations'[i].fp.formation_type
                                       = defs[k].type
                                 /\ active_formations'[i].fp.enemy_type
                                       = defs[k].enemy_type}
                 IN  /\ due <=> Cardinality(fresh) = 1
                     /\ ~due <=> fresh = {}
                     /\ TimerGet(formation_timers', FormationKey(defs[k]))
                           = IF due THEN 0
                             ELSE TimerGet(formation_timers,
                                           FormationKey(defs[k])) + frame_dt]_vars

\* a V of two zigzags (0.4 s to spawn, interval 0.3 s) has been started
\* while the V before it has spawned only the first of its two enemies
C30_Witness ==
    /\ last.op = "update"
    /\ Len(active_formations) = 2
    /\ active_formations[1].fp.formation_type = "v_shape"
    /\ active_formations[1].fp.enemy_type = "zigzag"
    /\ active_formations[1].fp.count = 2
    /\ active_formations[1].fp.spawned_count = 1
    /\ ~active_formations[1].fp.complete
    /\ active_formations[2].fp.formation_type = "v_shape"
    /\ active_formations[2].fp.enemy_type = "zigzag"
    /\ active_formations[2].fp.spawned_count = 0
    /\ active_formations[2].age = 0
    /\ Len(enemies) = 1

(***************************************************************************)
(* EnemyManager.update called over and over with dt > 0 on one wave that   *)
(* does not change: the wave timer is left alone.  The wave lists          *)
(* installed have two definitions with the same layout and archetype, or   *)
(* with different ones.  elapsed is the update time accumulated, kept      *)
(* modulo ClockMod, longer than any formation lives.                       *)
(***************************************************************************)
ClockMod == 10

RunDts == {1, 2}

SameKeyWaves ==
    <<FormationWave(100, <<FormationDef("line", "basic", 2, 4, 0),
                           FormationDef("line", "basic", 1, 4, 150)>>)>>

MixedWaves ==
    <<FormationWave(100, <<FormationDef("v_shape", "zigzag", 2, 3, 0),
                           FormationDef("line", "basic", 1, 4, 150)>>)>>

RunLists == {SameKeyWaves, MixedWaves}

InitRun ==
    /\ \E ws \in RunLists : \E r \in EnemyManager_set_waves(ws) :
          /\ waves = r.wm.waves
          /\ wave_index = r.wm.wave_index
          /\ wave_timer = r.wm.wave_timer
          /\ formation_timers = r.formation_timers
          /\ active_formations = r.active_formations
    /\ enemies = <<>>
    /\ enemy_projectiles = <<>>
    /\ pc = "idle"
    /\ frame_dt = 0
    /\ elapsed = 0
    /\ ticks_only = FALSE
    /\ spawned = <<>>
    /\ n_spawned = 0
    /\ screen_height = GameHeight
    /\ save_file = None
    /\ formation = NoFormation
    /\ last = Call("set_waves", 0, FALSE)
    /\ LevelManagerInit
    /\ CombatInit

\* One call of update(dt, game_time).  The enemies that were on screen
\* before the call have all left it, or are all still there while the
\* group holds no more than MaxSprites.
UpdateRun ==
    /\ pc = "idle"
    /\ \E dt \in RunDts :
          \E r \in EnemyManager_update(
                      waves, wave_index, formation_timers, active_formations,
                      enemies, enemy_projectiles, dt, elapsed + dt) :
             /\ \/ Len(r.enemies) = Len(r.spawns)
                \/ /\ Len(r.enemies) = Len(enemies) + Len(r.spawns)
                   /\ Len(r.enemies) <= MaxSprites
             /\ formation_timers' = r.formation_timers
             /\ active_formations' = r.active_formations
             /\ enemies' = r.enemies
             /\ enemy_projectiles' = r.enemy_projectiles
             /\ spawned' = r.spawns
             /\ frame_dt' = dt
             /\ elapsed' = (elapsed + dt) % ClockMod
             /\ last' = Call("update", dt, FALSE)
    /\ UNCHANGED <<waves, wave_index, wave_timer, pc, ticks_only, n_spawned,
                   formation, screen_height, save_file>>
    /\ UNCHANGED levelVars
    /\ UNCHANGED combatVars

NextRun == UpdateRun

SpecRun == InitRun /\ [][NextRun]_vars

\* update is called in every frame of play
SpecRunFair == SpecRun /\ WF_vars(UpdateRun)

(***************************************************************************)
(* C31: for every formation definition of the active wave, each call of    *)
(* EnemyManager.update advances the definition's interval timer by exactly *)
(* dt, or resets it to 0 when the timer so advanced has reached the        *)
(* definition's interval, and only then is a formation started for it (so  *)
(* that two starts for one definition are at least its interval apart);    *)
(* also when two definitions of the wave have the same layout and          *)
(* archetype.                                                              *)
(***************************************************************************)
C31_TimerPerSpec ==
    [][(last'.op = "update"
          /\ WaveManager_get_current_wave(waves, wave_index) # None) =>
          LET defs == WaveManager_get_current_wave(waves, wave_index).formations
          IN  \A k \in 1..Len(defs) :
                 LET t0 == TimerGet(formation_timers, FormationKey(defs[k]))
                     t1 == TimerGet(formation_timers', FormationKey(defs[k]))
                     reached == (t0 + frame_dt') * defs[k].interval.den
                                   >= defs[k].interval.num
                     started == \E i \in 1..Len(active_formations') :
                                   /\ active_formations'[i].age = 0
                                   /\ active_formations'[i].fp.spawned_count = 0
                                   /\ active_formations'[i].fp.formation_type
                                         = defs[k].type
                                   /\ active_formations'[i].fp.enemy_type
                                         = defs[k].enemy_type
                                   /\ active_formations'[i].fp.count
                                         = defs[k].count
                 IN  /\ t1 = IF reached THEN 0 ELSE t0 + frame_dt'
                     /\ started => reached]_vars

\* the wave has two LINE formations of basic enemies, each every 0.4 s; a
\* first update of 0.1 s has left their one timer at 0.2 s
C31_Witness ==
    /\ last.op = "update"
    /\ frame_dt = 1
    /\ elapsed = 1
    /\ active_formations = <<>>
    /\ Len(waves[1].formations) = 2
    /\ FormationKey(waves[1].formations[1]) = FormationKey(waves[1].formations[2])
    /\ TimerGet(formation_timers, FormationKey(waves[1].formations[1])) = 2

(***************************************************************************)
(* C32: under repeated EnemyManager.update calls with dt > 0 and no wave   *)
(* change, every formation that was started with count >= 1 eventually     *)
(* becomes complete, having requested exactly count spawns of its          *)
(* archetype, and is then removed from active_formations.  A formation is  *)
(* told from the others by its layout, archetype, count and the time it    *)
(* was started at (the time now less its age).                             *)
(***************************************************************************)
\* the update time (modulo ClockMod) at which the active formation a was
\* started
FormationStartedAt(a) ==
    (elapsed + ClockMod - (a.age % ClockMod)) % ClockMod

\* the active formations started at s
FormationsOf(s) ==
    {i \in 1..Len(active_formations) :
        FormationStartedAt(active_formations[i]) = s}

\* one element for every spawn requested so far by the formations of fs
\* that have the archetype et and the given age
SpawnRequests(fs, et, age) ==
    {<<i, j>> \in (1..Len(fs)) \X (1..3) :
        /\ fs[i].fp.enemy_type = et
        /\ fs[i].age = age
        /\ j <= fs[i].fp.spawned_count}

\* Every formation started at any time s is later out of the list; a
\* formation in the list has requested at most count spawns and is complete
\* exactly when it has requested count; an update keeps every formation
\* that is not complete, in place and older by dt, drops every complete
\* one and adds the new ones behind; the spawns an update requests are one
\* for each step of a formation's spawned_count, and the formation that
\* becomes complete has requested its last (index count - 1).
C32_FormationCompletes ==
    /\ \A s \in 0..(ClockMod - 1) : []<>(FormationsOf(s) = {})
    /\ [](\A i \in 1..Len(active_formations) :
             /\ active_formations[i].fp.count >= 1
             /\ active_formations[i].fp.spawned_count
                   <= active_formations[i].fp.count
             /\ active_formations[i].fp.complete
                   <=> (active_formations[i].fp.spawned_count
                          = active_formations[i].fp.count))
    /\ [][last'.op = "update" =>
            LET kept == SelectSeq(active_formations,
                                  LAMBDA a : ~a.fp.complete)
            IN  /\ Len(active_formations') >= Len(kept)
                /\ \A i \in 1..Len(kept) :
                      /\ active_formations'[i].age = kept[i].age + frame_dt'
                      /\ active_formations'[i].fp.formation_type
                            = kept[i].fp.formation_type
                      /\ active_formations'[i].fp.enemy_type
                            = kept[i].fp.enemy_type
                      /\ active_formations'[i].fp.count = kept[i].fp.count
                      /\ active_formations'[i].fp.spawned_count
                            \in {kept[i].fp.spawned_count,
                                 kept[i].fp.spawned_count + 1}
                /\ \A i \in (Len(kept) + 1)..Len(active_formations') :
                      /\ active_formations'[i].age = 0
                      /\ active_formations'[i].fp.spawned_count = 0
                /\ \A j \in 1..Len(active_formations') :
                      active_formations'[j].fp.complete =>
                         \E n \in 1..Len(spawned') :
                            /\ spawned'[n].enemy_type
                                  = active_formations'[j].fp.enemy_type
                            /\ spawned'[n].age = active_formations'[j].age
                            /\ spawned'[n].index
                                  = active_formations'[j].fp.count - 1
                /\ \A et \in {"basic", "zigzag"} :
                      \A age \in 1..ClockMod :
                         Cardinality(
                            SpawnRequests(active_formations', et, age))
                          = Cardinality(
                               SpawnRequests(kept, et, age - frame_dt'))
                            + Cardinality(
                                 {n \in 1..Len(spawned') :
                                     /\ spawned'[n].enemy_type = et
                                     /\ spawned'[n].age = age})]_vars

\* a V of two zigzags has requested its second spawn 0.4 s after it was
\* started, is complete and is still in the list; the update after this
\* one removes it
C32_Witness ==
    /\ last.op = "update"
    /\ \E i \in 1..Len(active_formations) :
          /\ active_formations[i].fp.formation_type = "v_shape"
          /\ active_formations[i].fp.count = 2
          /\ active_formations[i].fp.spawned_count = 2
          /\ active_formations[i].fp.complete
          /\ active_formations[i].age = 4
          /\ \E n \in 1..Len(spawned) :
                /\ spawned[n].enemy_type = "zigzag"
                /\ spawned[n].index = 1
                /\ spawned[n].age = 4

(***************************************************************************)
(* C33: in every reachable state the player's lives are >= 0: no sequence  *)
(* of collision steps, in one pass or over several, takes them below 0.    *)
(***************************************************************************)
C33_LivesNonNegative == player.lives >= 0

\* one pass: the enemy-player step took the last life (lives 1, health
\* 10), and the enemy-projectile step of the same pass, hitting the dead
\* player with one projectile, has taken another
C33_Witness ==
    /\ last.op = "enemy_projectile_player"
    /\ player_killed
    /\ Cardinality(overlap) = 1
    /\ player.health = 0
    /\ player.lives = -1

(***************************************************************************)
(* The frames of PlayingState.update with the enemies' positions: every    *)
(* enemy has the top of its rectangle, in pixels.  Enemy.update moves it   *)
(* down and kills it once its top is below the display surface (enemy.py   *)
(* 75-78); the frame then counts the enemies whose top is below the        *)
(* playfield (playing_state.py 380-383) and runs the collision pass.  The  *)
(* display is lower than, as high as, or higher than the playfield.        *)
(* counted tells how often an enemy has been counted as escaped, left      *)
(* whether it was removed for having left the display.                     *)
(***************************************************************************)
EscapeFrames == 3   \* no frame begins once this many have run

DisplayHeights == {1080, GameHeight, 1440}

StartTops == {1200}

Falls == {100, 200}

PositionedEnemy(top) ==
    Enemy("basic", 10) @@ [top |-> top, counted |-> 0, left |-> FALSE]

\* Enemy.update of every enemy of the group, each falling by its own
\* amount: the enemies still in the group, and those that were killed
Enemy_update(group, fall) ==
    LET moved == [i \in 1..Len(group) |->
                     [group[i] EXCEPT !.top = @ + fall[i]]]
    IN  [enemies |-> SelectSeq(moved, LAMBDA e : e.top <= screen_height),
         gone |-> [i \in 1..Len(SelectSeq(moved,
                                  LAMBDA e : e.top > screen_height)) |->
                     [SelectSeq(moved, LAMBDA e : e.top > screen_height)[i]
                         EXCEPT !.left = TRUE]]]

\* "Track enemies that escaped": the group with each enemy found below the
\* playfield marked as counted once more
PlayingState_track_escaped(group) ==
    [i \in 1..Len(group) |->
        IF group[i].top > GameHeight
        THEN [group[i] EXCEPT !.counted = @ + 1]
        ELSE group[i]]

InitEscape ==
    /\ waves = <<>>
    /\ wave_index = 0
    /\ wave_timer = 0
    /\ formation_timers = EmptyTimers
    /\ active_formations = <<>>
    /\ enemies = <<>>
    /\ enemy_projectiles = <<>>
    /\ pc = "playing"
    /\ frame_dt = 0
    /\ elapsed = 0
    /\ ticks_only = TRUE
    /\ spawned = <<>>
    /\ n_spawned = 0
    /\ screen_height \in DisplayHeights
    /\ save_file = None
    /\ formation = NoFormation
    /\ last = NoCall
    /\ LevelManagerInit
    /\ CombatInit

\* update(dt) up to the collision pass, as Tick, with the enemies moved by
\* Enemy.update instead of an EnemyManager without positions
EscapeTick ==
    /\ pc = "playing"
    /\ LET lm == LevelManager_update(level_time, level_duration,
                                     level_complete, 1)
       IN  /\ ~lm.ret
           /\ level_time' = lm.level_time
           /\ level_complete' = lm.level_complete
           /\ last' = Call("playing_update", 1, lm.ret)
    /\ \E held \in BOOLEAN, arrived \in BOOLEAN, top \in StartTops,
          fall \in [1..Len(enemies) -> Falls] :
          LET fired == held /\ Len(player_projectiles) < MaxSprites
              u == Enemy_update(enemies, fall)
              group == IF arrived /\ Len(u.enemies) < MaxEnemies
                       THEN Append(u.enemies, PositionedEnemy(top))
                       ELSE u.enemies
              escaped == Cardinality({i \in 1..Len(group) :
                                         group[i].top > GameHeight})
              counted ==
                  [stats EXCEPT
                     !.shots_fired = @ + (IF fired THEN 1 ELSE 0),
                     !.enemies_escaped = @ + escaped]
          IN  /\ player_projectiles' =
                    IF fired
                    THEN Append(player_projectiles, PlayerProjectile)
                    ELSE player_projectiles
              /\ enemies' = PlayingState_track_escaped(group)
              /\ killed' = u.gone
              /\ stats' = PlayingState_update_rates(counted)
    /\ frame_dt' = 1
    /\ elapsed' = elapsed + 1
    /\ pass_enemies' = enemies'
    /\ pass_collectibles' = collectibles
    /\ base_score' = player.score
    /\ pc' = "projectile_enemy"
    /\ UNCHANGED <<waves, wave_index, wave_timer, formation_timers,
                   active_formations, enemy_projectiles, ticks_only, spawned,
                   n_spawned, formation, screen_height, save_file, current_level,
                   level_duration, base_waves, scaled_waves, scaled_level,
                   scale_calls, player_missiles, collectibles, player,
                   total_stars_collected, player_killed, overlap,
                   detached_stats, playing_level, playing_stars>>

NextEscape ==
    \/ (elapsed < EscapeFrames /\ EscapeTick)
    \/ CheckProjectileEnemy
    \/ CheckMissileEnemy
    \/ CheckEnemyPlayer
    \/ CheckEnemyProjectilePlayer
    \/ CheckPlayerCollectible
    \/ FrameEnd

SpecEscape == InitEscape /\ [][NextEscape]_vars

(***************************************************************************)
(* C34: every enemy that leaves the bottom of the playfield without being  *)
(* killed increments enemies_escaped by exactly 1 (not 0 times, not once   *)
(* per tick), and an enemy killed by the player never increments it: an    *)
(* enemy in the group has been counted once if it is below the playfield   *)
(* and not at all otherwise, an enemy removed for leaving the display      *)
(* below the playfield was counted once, and an enemy killed by a          *)
(* projectile or a missile was not counted.                                *)
(***************************************************************************)
C34_EscapedCountedOnce ==
    /\ \A i \in 1..Len(enemies) :
          enemies[i].counted
             = IF enemies[i].top > GameHeight THEN 1 ELSE 0
    /\ \A k \in 1..Len(killed) :
          IF killed[k].left
          THEN killed[k].top > GameHeight => killed[k].counted = 1
          ELSE killed[k].counted = 0

\* the display is 1440 high: an enemy is between the bottom of the
\* playfield and that of the display for the second frame, and has been
\* counted as escaped in both
C34_Witness ==
    /\ last.op = "playing_update"
    /\ screen_height = 1440
    /\ Len(enemies) = 1
    /\ enemies[1].top = 1400
    /\ enemies[1].counted = 2
    /\ stats.enemies_escaped = 2
    /\ stats.enemies_killed = 0

(***************************************************************************)
(* C35: in every reachable state shots_hit <= shots_fired, so that the     *)
(* accuracy derived from them lies within 0..100 percent.                  *)
(***************************************************************************)
C35_HitsWithinShots ==
    /\ stats.shots_hit <= stats.shots_fired
    /\ 0 <= stats.accuracy[1]
    /\ stats.accuracy[1] <= 100 * stats.accuracy[2]

\* one shot made by holding SPACE (counted) and one by pressing it (not
\* counted) have both hit: 2 hits of 1 shot, an accuracy of 200 % at the
\* next update of the rates
C35_Witness ==
    /\ last.op = "projectile_enemy"
    /\ overlap # {}
    /\ stats.shots_fired = 1
    /\ stats.shots_hit = 2
    /\ stats.accuracy = Percent(1, 1)

(***************************************************************************)
(* A level of 90 s played to its end in frames of 22.5 s: three frames     *)
(* with a collision pass, and the frame that completes the level.          *)
(***************************************************************************)
ScoreDts == {225}

NextScore ==
    \/ HandleShoot
    \/ (level_time < MaxLevelTime /\ PlayingUpdateBy(ScoreDts))
    \/ CheckProjectileEnemy
    \/ CheckMissileEnemy
    \/ CheckEnemyPlayer
    \/ CheckEnemyProjectilePlayer
    \/ CheckPlayerCollectible
    \/ FrameEnd
    \/ SummaryDone

SpecScore == InitPlaying /\ [][NextScore]_vars

(***************************************************************************)
(* C36: at every level completion the bonus multiplier computed from kill  *)
(* rate, collection rate and accuracy lies in [1.0, 2.0], so that          *)
(* 0 <= bonus_score <= base_score: the level score written to the player   *)
(* lies between base_score and twice base_score, and the weighted rates    *)
(* between 0 and 100.                                                      *)
(***************************************************************************)
C36_BonusUpToDouble ==
    [][(last'.op = "playing_update" /\ last'.ret) =>
          LET kr == stats.kill_rate
              cr == stats.collection_rate
              ac == stats.accuracy
              num == 5 * kr[1] * cr[2] * ac[2] + 3 * cr[1] * kr[2] * ac[2]
                       + 2 * ac[1] * kr[2] * cr[2]
              den == 10 * kr[2] * cr[2] * ac[2]
          IN  /\ 0 <= num
              /\ num <= 100 * den
              /\ base_score <= player'.score
              /\ player'.score <= 2 * base_score]_vars

\* the level has completed with an accuracy of 200 % (two hits of one
\* counted shot), a kill rate of 100 % and a collection rate of 100 %: a
\* multiplier of 2.2, and a bonus larger than the base score
C36_Witness ==
    /\ last.op = "playing_update"
    /\ last.ret
    /\ pc = "summary"
    /\ stats.accuracy = Percent(2, 1)
    /\ stats.kill_rate = Percent(2, 2)
    /\ stats.collection_rate = Percent(1, 1)
    /\ base_score > 0
    /\ player.score > 2 * base_score

(***************************************************************************)
(* C37: at level completion the base score of the breakdown is the         *)
(* player's score at that moment, with every point of the last collision   *)
(* pass before completion in it, and the level score is that base score    *)
(* plus the bonus; so completing a level never decreases player.score.     *)
(***************************************************************************)
C37_BaseScoreIsScore ==
    [][(last'.op = "playing_update" /\ last'.ret) =>
          /\ base_score = player.score
          /\ player'.score
                = PlayingState_calculate_level_score(stats, player.score)
          /\ player'.score >= player.score]_vars

\* the level has completed after a last collision pass in which the
\* player's only kill earned the first points: base_score, taken before
\* that pass, is 0, and the level score written to the player is 0
C37_Witness ==
    /\ last.op = "playing_update"
    /\ last.ret
    /\ pc = "summary"
    /\ stats.enemies_killed = 1
    /\ base_score = 0
    /\ player.score = 0

(***************************************************************************)
(* The shop and the save file.  The game starts in the menu, after         *)
(* Game.__init__ has loaded the save file if there is one.  The menu leads *)
(* to the shop, to a new game or, when a save exists, back to play; the    *)
(* shop spends PlayingState.total_stars_collected, which ShopState.stars   *)
(* mirrors from enter() on.                                                *)
(***************************************************************************)
SavedStars == {50}      \* the stars a save file of an earlier run holds

\* what a purchase can cost: an engine or thruster upgrade at level 0 costs
\* int(30 * 1.6 ** 0) and at level 1 int(30 * 1.6 ** 1); their effect is on
\* the player's speed only
ShopCosts == {30, 48}

\* Game._load_game_data(): the stars of PlayingState after the call
Game_load_game_data(file, stars) == IF file = None THEN stars ELSE file.stars

InitShop ==
    /\ waves = <<>>
    /\ wave_index = 0
    /\ wave_timer = 0
    /\ formation_timers = EmptyTimers
    /\ active_formations = <<>>
    /\ enemies = <<>>
    /\ enemy_projectiles = <<>>
    /\ pc = "menu"
    /\ frame_dt = 0
    /\ elapsed = 0
    /\ ticks_only = FALSE
    /\ spawned = <<>>
    /\ n_spawned = 0
    /\ screen_height = GameHeight
    /\ save_file \in {None} \cup {Game_save_game_data(n) : n \in SavedStars}
    /\ formation = NoFormation
    /\ last = NoCall
    /\ LevelManagerInit
    /\ player_projectiles = <<>>
    /\ player_missiles = <<>>
    /\ collectibles = <<>>
    /\ player = Player_init
    /\ stats = Stats_init
    /\ total_stars_collected = 0
    /\ player_killed = FALSE
    /\ overlap = {}
    /\ pass_enemies = <<>>
    /\ pass_collectibles = <<>>
    /\ killed = <<>>
    /\ detached_stats = None
    /\ playing_level = 1
    /\ base_score = 0
    /\ playing_stars = Game_load_game_data(save_file, 0)

shopRest == <<enemies, enemy_projectiles, player_projectiles,
              player_missiles, collectibles, player, stats,
              total_stars_collected, player_killed, overlap, pass_enemies,
              pass_collectibles, killed, detached_stats, playing_level,
              base_score, level_time, level_complete, playingRest,
              save_file>>

\* the menu's "shop": change_state("shop") and ShopState.enter()
MenuShop ==
    /\ pc = "menu"
    /\ pc' = "shop"
    /\ last' = Call("shop", 0, FALSE)
    /\ UNCHANGED <<playing_stars, shopRest>>

\* ShopState._purchase_upgrade() of an upgrade the stars pay for; one they
\* do not pay for changes nothing
ShopPurchase ==
    /\ pc = "shop"
    /\ \E cost \in ShopCosts :
          /\ playing_stars >= cost
          /\ playing_stars' = playing_stars - cost
          /\ last' = [op |-> "purchase_upgrade", cost |-> cost]
    /\ UNCHANGED <<pc, shopRest>>

\* the shop's ESC or B: change_state("menu")
ShopToMenu ==
    /\ pc = "shop"
    /\ pc' = "menu"
    /\ last' = Call("menu", 0, FALSE)
    /\ UNCHANGED <<playing_stars, shopRest>>

\* the menu's "resume", offered when a save exists: Game._load_game_data()
\* and, through change_state("playing"), PlayingState.enter()
MenuResume ==
    /\ pc = "menu"
    /\ save_file # None
    /\ playing_stars' = Game_load_game_data(save_file, playing_stars)
    /\ LET r == PlayingState_enter(stats, player, TRUE, playing_level)
       IN  /\ player' = r.player
           /\ stats' = r.stats
           /\ detached_stats' =
                 IF r.rebound /\ detached_stats = None THEN stats
                 ELSE detached_stats
    /\ enemies' = <<>>
    /\ enemy_projectiles' = <<>>
    /\ player_projectiles' = <<>>
    /\ player_missiles' = <<>>
    /\ collectibles' = <<>>
    /\ pc' = "playing"
    /\ last' = Call("resume", 0, FALSE)
    /\ UNCHANGED <<total_stars_collected, player_killed, overlap,
                   pass_enemies, pass_collectibles, killed, playing_level,
                   base_score, level_time, level_complete, playingRest,
                   save_file>>

NextShop ==
    \/ MenuShop
    \/ ShopPurchase
    \/ ShopToMenu
    \/ MenuResume
    \/ MenuNewGame
    \/ (level_time < MaxLevelTime /\ PlayingUpdate)
    \/ CheckProjectileEnemy
    \/ CheckMissileEnemy
    \/ CheckEnemyPlayer
    \/ CheckEnemyProjectilePlayer
    \/ CheckPlayerCollectible
    \/ FrameEnd
    \/ SummaryDone

SpecShop == InitShop /\ [][NextShop]_vars

(***************************************************************************)
(* C38: stars spent in the shop stay spent.  As stated: a purchase of cost *)
(* c lowers PlayingState.total_stars_collected by exactly c; no later step *)
(* lowers it except another purchase or a new game, so stars loaded from a *)
(* save are never discarded; and it grows only at the end of a frame in    *)
(* which the player touched a collectible, so no step gives spent stars    *)
(* back.                                                                   *)
(***************************************************************************)
C38_SpentStaysSpent ==
    [][/\ last'.op = "purchase_upgrade" =>
             playing_stars' = playing_stars - last'.cost
       /\ last'.op \notin {"purchase_upgrade", "start_new_game"} =>
             playing_stars' >= playing_stars
       /\ playing_stars' > playing_stars =>
             last'.op = "frame_end" /\ overlap # {}]_vars

\* the save holds 50 stars, the menu's resume has loaded them, nothing was
\* collected, and the frame of play that has just ended left the player none
C38_Witness ==
    /\ last.op = "frame_end"
    /\ pc = "playing"
    /\ save_file = Game_save_game_data(50)
    /\ total_stars_collected = 0
    /\ playing_stars = 0
(***************************************************************************)
(* C39: from the shop, continuing to the next level completes.  As stated: *)
(* the step of _continue_to_next_level raises PlayingState.current_level   *)
(* by exactly 1 and ends in the playing state, whose enter() has installed *)
(* a fresh wave timeline: one more scale_difficulty call, wave index and   *)
(* wave timer 0.                                                           *)
(***************************************************************************)
C39_ContinueCompletes ==
    [][last'.op = "continue_to_next_level" =>
          /\ playing_level' = playing_level + 1
          /\ pc' = "playing"
          /\ scale_calls' = scale_calls + 1
          /\ wave_index' = 0
          /\ wave_timer' = 0]_vars

\* level 1 was completed, continue was chosen in the shop, and the game loop
\* has ended with the level number at 2
C39_Witness ==
    /\ last.op = "continue_to_next_level"
    /\ pc = "crashed"
    /\ playing_level = 2
    /\ scale_calls = 0

(***************************************************************************)
(* C4: the scenario wave (basic, count 3, interval 2.0 s, LINE), driven by *)
(* frames from time 0.  As stated: exactly three spawn requests, the k-th  *)
(* at 2.0*k s with x = center - 60 + 60*(k - 1).                           *)
(***************************************************************************)
C4_ThreeRequestsAtIntervals ==
    /\ n_spawned <= 3
    /\ \A i \in 1..Len(spawned) :
          LET k == n_spawned - Len(spawned) + i
          IN  /\ spawned[i].t = 20 * k
              /\ spawned[i].x = ScreenWidth \div 2 - 60 + 60 * (k - 1)

\* C4, as the code has it: the interval is the time between formation
\* starts, so no formation starts before 2.0 s; a formation requests its
\* members index 0, 1, 2 one per elapsed spawn delay of 0.2 s after its
\* start, so never before 2.2 s, at x = center - 60, center, center + 60;
\* formations keep starting, so the requests are not limited to three.
C4_FormationEveryInterval ==
    \A i \in 1..Len(spawned) :
        LET e == spawned[i]
        IN  /\ e.enemy_type = "basic"
            /\ e.index \in 0..2
            /\ e.x = ScreenWidth \div 2 - 60 + 60 * e.index
            /\ e.t - e.age >= 20
            /\ e.age >= SpawnDelay * (e.index + 1)
            /\ e.age <= (SpawnDelay + MaxDt - 1) * (e.index + 1)
            /\ e.t >= 20 + SpawnDelay

\* a fourth request: the first member of a second formation
C4_Witness ==
    /\ waves = ScenarioWaves
    /\ n_spawned = 4
    /\ Len(spawned) = 1
    /\ spawned[1].index = 0
    /\ spawned[1].x = ScreenWidth \div 2 - 60

(***************************************************************************)
(* C3: advance_wave() on the last wave, or on an empty timeline, returns   *)
(* False and leaves wave index, wave timer, formation timers and active    *)
(* formations as they were; on an earlier wave it returns True, the index  *)
(* grows by exactly 1 and the wave timer is 0.                             *)
(***************************************************************************)
C3_AdvanceWave ==
    [][last'.op = "advance_wave" =>
         IF Len(waves) = 0 \/ wave_index = Len(waves) - 1
         THEN /\ ~last'.ret
              /\ UNCHANGED <<wave_index, wave_timer, formation_timers,
                             active_formations>>
         ELSE /\ last'.ret
              /\ wave_index' = wave_index + 1
              /\ wave_timer' = 0]_vars

\* advance_wave() refused on the last wave while formations are active
C3_Witness ==
    /\ last = Call("advance_wave", 0, FALSE)
    /\ Len(waves) > 0
    /\ wave_index = Len(waves) - 1
    /\ wave_timer > 0
    /\ active_formations # <<>>
    /\ formation_timers # EmptyTimers

(***************************************************************************)
(* C6: whenever the wave index changes, through update_wave_timer or       *)
(* through advance_wave, the formation timers and the active formations    *)
(* are empty after the call, before the update that follows; so every      *)
(* active formation, and every formation that requests a spawn, was        *)
(* started in the current wave.                                            *)
(***************************************************************************)
C6_FormationsNeverCarryOver ==
    /\ [][(/\ wave_index' # wave_index
           /\ last'.op \in {"update_wave_timer", "advance_wave"})
          => (formation_timers' = EmptyTimers /\ active_formations' = <<>>)]_vars
    /\ [](/\ \A i \in 1..Len(spawned) : spawned[i].born = wave_index
          /\ \A i \in 1..Len(active_formations) :
                active_formations[i].born = wave_index)

\* a request in the second wave, reached by frames alone: the first wave
\* ended while one of its formations was still spawning
C6_Witness ==
    /\ ticks_only
    /\ wave_index = 1
    /\ spawned # <<>>
    /\ spawned[1].born = 1

=============================================================================
